---- MODULE Spec2Model ----
(***************************************************************************)
(* Model of the Skill generator of the MAPI converter                      *)
(* (lib/mapi-converter/src/generators/skill.ts).                           *)
(*                                                                         *)
(* JSON values are records with a tag t and one payload field per kind,    *)
(* so that values of different kinds are never compared field by field.    *)
(* Strings are TLA+ strings when only their identity matters and sequences *)
(* of one-character strings when the code inspects their characters.       *)
(***************************************************************************)
EXTENDS Integers, Sequences, FiniteSets, TLC

VARIABLES
    exSchema,    \* generateExampleFromSchema: the schema argument
    exSchemas,   \* generateExampleFromSchema: the named-schema table
    exDepth,     \* generateExampleFromSchema: the depth argument
    exProp,      \* generateExampleFromSchema: the propName argument
    exResult,    \* generateExampleFromSchema: the returned value
    exPc,        \* "idle" | "ready" | "done"
    opId,        \* normalizeOperationId: the argument (sequence of characters)
    normResult,  \* normalizeOperationId: the returned identifier
    normPc,      \* "idle" | "ready" | "done"
    doc,         \* the parsed document handed to the generator
    options,     \* ConvertOptions: [apiName, intentGenerator]
    runs,        \* one record per call of generateSkillFrom{Mapi,OpenApi}
    tdInfo,      \* getTypeDescription(exSchema, exSchemas): <<>> until returned
    tdInRows,    \* generateInputTableRows(exSchema, exSchemas): <<>> until returned
    tdOutRows,   \* generateOutputTableRows(exSchema, exSchemas): <<>> until returned
    rtCaller,    \* "idle" | "callClaude" | "withRetry": who issues the request
    rtPc,        \* "idle" | "ready" | "pending" | "sleeping" | "returned" | "threw"
    rtAttempt,   \* withRetry: the loop variable attempt
    rtLastError, \* withRetry: lastError, <<>> while undefined
    rtOutcome,   \* the value returned or the error thrown, <<>> while running
    rtLog,       \* the requests, their settlements and the waits, in order
    e2eCase,     \* runE2ETest: the test case, <<>> while idle
    e2eFiles,    \* the capability ids that have a file under capabilities/
    e2ePc,       \* "idle" or the step runE2ETest is suspended before
    e2eResult,   \* runE2ETest: the result object, <<>> while idle
    e2eLog,      \* the steps runE2ETest entered and the exception, in order
    stResults,   \* main: the FormatResults returned so far, three per test
    stEnded,     \* how each of those runs ended: <<>> or the error caught
    stStats,     \* main: the aggregate statistics, <<>> until computed
    stPc,        \* "idle" | "running" | "aggregated"
    evInputs,    \* the (test case, LLM response) pairs handed to evaluate
    evResults,   \* the TestResults evaluate returned for them, in order
    evSummary,   \* summarize(evResults): <<>> until returned
    evPc         \* "idle" | "running" | "summarized"

vars == <<exSchema, exSchemas, exDepth, exProp, exResult, exPc,
          opId, normResult, normPc, doc, options, runs,
          tdInfo, tdInRows, tdOutRows,
          rtCaller, rtPc, rtAttempt, rtLastError, rtOutcome, rtLog,
          e2eCase, e2eFiles, e2ePc, e2eResult, e2eLog,
          stResults, stEnded, stStats, stPc,
          evInputs, evResults, evSummary, evPc>>

exVars == <<exSchema, exSchemas, exDepth, exProp, exResult, exPc>>
normVars == <<opId, normResult, normPc>>
genVars == <<doc, options, runs>>
tdVars == <<tdInfo, tdInRows, tdOutRows>>
rtVars == <<rtCaller, rtPc, rtAttempt, rtLastError, rtOutcome, rtLog>>
e2eVars == <<e2eCase, e2eFiles, e2ePc, e2eResult, e2eLog>>
stVars == <<stResults, stEnded, stStats, stPc>>
evVars == <<evInputs, evResults, evSummary, evPc>>
harnessVars == <<rtVars, e2eVars, stVars, evVars>>

----------------------------------------------------------------------------
(* Bounds of the model *)

MaxStack == 8        \* call-stack frames available to the recursive synthesis
MaxCycle == 3        \* number of named schemas that may form a $ref cycle
MaxStartDepth == 4   \* largest depth argument tried by the object scenarios
NumRequired == 3     \* required properties of the scenario object
NumOptional == 10    \* optional properties of the scenario object

----------------------------------------------------------------------------
(* JSON values *)

Null == [t |-> "null", s |-> "", n |-> 0, d |-> 1, b |-> FALSE,
         elems |-> <<>>, fields |-> <<>>]
Str(x) == [Null EXCEPT !.t = "str", !.s = x]
Num(k) == [Null EXCEPT !.t = "num", !.n = k]
Frac(k, den) == [Null EXCEPT !.t = "num", !.n = k, !.d = den]
Bool(x) == [Null EXCEPT !.t = "bool", !.b = x]
Arr(xs) == [Null EXCEPT !.t = "arr", !.elems = xs]
Obj(kvs) == [Null EXCEPT !.t = "obj", !.fields = kvs]
\* marker returned when the call stack is exhausted (RangeError in the engine)
Overflow == [Null EXCEPT !.t = "overflow"]

\* JavaScript truthiness of a value (used by `itemExample ? ... : ...`)
Truthy(v) ==
    CASE v.t = "null" -> FALSE
      [] v.t = "str" -> v.s # ""
      [] v.t = "num" -> v.n # 0
      [] v.t = "bool" -> v.b
      [] OTHER -> TRUE

Keys(v) == [i \in 1..Len(v.fields) |-> v.fields[i].k]
KeySet(v) == {v.fields[i].k : i \in 1..Len(v.fields)}

\* obj[fieldName] = value: replaces in place, else appends (insertion order)
SetField(kvs, k, val) ==
    IF \E i \in 1..Len(kvs) : kvs[i].k = k
    THEN [i \in 1..Len(kvs) |-> IF kvs[i].k = k THEN [k |-> k, val |-> val] ELSE kvs[i]]
    ELSE Append(kvs, [k |-> k, val |-> val])

----------------------------------------------------------------------------
(* OpenApiSchema nodes.  An optional field is a sequence of length 0 or 1. *)

EmptySchema == [example |-> <<>>, ref |-> <<>>, enum |-> <<>>, hasEnum |-> FALSE,
                type |-> "", items |-> <<>>, hasProps |-> FALSE, props |-> <<>>,
                required |-> {}, format |-> "", minimum |-> <<>>,
                description |-> <<>>]

Prim(ty) == [EmptySchema EXCEPT !.type = ty]
RefTo(name) == [EmptySchema EXCEPT !.ref = <<"#", "components", "schemas", name>>]
EnumOf(vals) == [EmptySchema EXCEPT !.type = "string", !.hasEnum = TRUE, !.enum = vals]
ArrayOf(item) == [EmptySchema EXCEPT !.type = "array", !.items = <<item>>]
ObjectOf(props, req) ==
    [EmptySchema EXCEPT !.type = "object", !.hasProps = TRUE, !.props = props, !.required = req]
WithExample(s, v) == [s EXCEPT !.example = <<v>>]
P(name, schema) == [name |-> name, schema |-> schema]

\* schema.$ref.split('/').pop() || ''
RefName(ref) == ref[Len(ref)]

----------------------------------------------------------------------------
(* Example synthesis: generateExampleFromSchema *)

DepthCeiling == 3
OptionalFieldCap == 5

\* propName.toLowerCase(), over the property names used by the model
ToLowerName(name) ==
    CASE name = "Role" -> "role"
      [] name = "ID" -> "id"
      [] name = "Temperature" -> "temperature"
      [] name = "Max_Tokens" -> "max_tokens"
      [] OTHER -> name

\* lower.includes('token'), over the property names used by the model
IncludesToken(lower) == lower \in {"token", "tokens", "max_tokens", "input_tokens"}

\* the switch on schema.type that ends generateExampleFromSchema
PrimitiveExample(schema, propName) ==
    LET lower == ToLowerName(propName) IN
    CASE schema.type = "string" ->
            IF schema.format = "date-time" THEN Str("2024-01-15T12:00:00Z")
            ELSE IF schema.format = "date" THEN Str("2024-01-15")
            ELSE IF schema.format = "email" THEN Str("user@example.com")
            ELSE IF schema.format = "uri" THEN Str("https://example.com")
            ELSE IF propName # "" /\ lower = "role" THEN Str("user")
            ELSE IF propName # "" /\ lower \in {"content", "text"} THEN Str("Hello, how are you?")
            ELSE IF propName # "" /\ lower = "id" THEN Str("msg_01XYZ")
            ELSE IF propName # "" /\ lower = "name" THEN Str("example")
            ELSE IF propName # "" /\ lower = "description" THEN Str("A sample description")
            ELSE Str("string")
      [] schema.type = "integer" ->
            IF propName # "" /\ IncludesToken(lower) THEN Num(1024)
            ELSE IF propName # "" /\ lower = "max_tokens" THEN Num(1024)
            ELSE IF schema.minimum # <<>> THEN Num(schema.minimum[1]) ELSE Num(100)
      [] schema.type = "number" ->
            IF propName # "" /\ lower = "temperature" THEN Frac(7, 10)
            ELSE IF schema.minimum # <<>> THEN Num(schema.minimum[1]) ELSE Num(1)
      [] schema.type = "boolean" -> Bool(TRUE)
      [] OTHER -> Null

\* the ceiling test left out
PastCeilingNever(depth) == FALSE

\* the ceiling test one level late
PastCeilingLate(depth) == depth > DepthCeiling + 1

\* `if (depth > 3) return null`
PastCeiling(depth) == depth > DepthCeiling

\* the cap applied to required fields as well
AdmitFieldCapOnly(name, required, obj) == Len(obj) < OptionalFieldCap

\* `required.has(fieldName) || Object.keys(obj).length < 5`
AdmitField(name, required, obj) == name \in required \/ Len(obj) < OptionalFieldCap

\* `if (propExample !== null) obj[fieldName] = propExample`
StoreField(obj, name, ex) == IF ex.t # "null" THEN SetField(obj, name, ex) ELSE obj

RECURSIVE GenEx(_, _, _, _, _)
RECURSIVE GenProps(_, _, _, _, _, _, _)

\* the loop over Object.entries(schema.properties), from entry i on
GenProps(props, required, schemas, depth, stack, i, obj) ==
    IF i > Len(props) THEN obj
    ELSE LET p == props[i] IN
         IF AdmitField(p.name, required, obj)
         THEN LET ex == GenEx(p.schema, schemas, depth + 1, p.name, stack - 1) IN
              GenProps(props, required, schemas, depth, stack, i + 1,
                       StoreField(obj, p.name, ex))
         ELSE GenProps(props, required, schemas, depth, stack, i + 1, obj)

\* the enumeration rule tried before the reference rule
GenExEnumFirst(schema, schemas, depth, propName, stack) ==
    IF stack = 0 THEN Overflow
    ELSE IF PastCeiling(depth) THEN Null
    ELSE IF schema.example # <<>> THEN schema.example[1]
    ELSE IF schema.hasEnum /\ Len(schema.enum) > 0 THEN schema.enum[1]
    ELSE IF schema.ref # <<>> THEN
        LET refName == RefName(schema.ref) IN
        IF refName \in DOMAIN schemas
        THEN GenEx(schemas[refName], schemas, depth + 1, refName, stack - 1)
        ELSE Obj(<<>>)
    ELSE IF schema.type = "array" /\ schema.items # <<>> THEN
        LET itemExample == GenEx(schema.items[1], schemas, depth + 1, "", stack - 1) IN
        IF itemExample.t = "overflow" THEN Overflow
        ELSE IF Truthy(itemExample) THEN Arr(<<itemExample>>) ELSE Arr(<<>>)
    ELSE IF schema.type = "object" \/ schema.hasProps THEN
        LET kvs == IF schema.hasProps
                   THEN GenProps(schema.props, schema.required, schemas, depth, stack, 1, <<>>)
                   ELSE <<>> IN
        IF \E j \in 1..Len(kvs) : kvs[j].val.t = "overflow" THEN Overflow ELSE Obj(kvs)
    ELSE PrimitiveExample(schema, propName)

\* generateExampleFromSchema with `stack` frames left on the call stack
GenEx(schema, schemas, depth, propName, stack) ==
    IF stack = 0 THEN Overflow
    ELSE IF PastCeiling(depth) THEN Null
    ELSE IF schema.example # <<>> THEN schema.example[1]
    ELSE IF schema.ref # <<>> THEN
        LET refName == RefName(schema.ref) IN
        IF refName \in DOMAIN schemas
        THEN GenEx(schemas[refName], schemas, depth + 1, refName, stack - 1)
        ELSE Obj(<<>>)
    ELSE IF schema.hasEnum /\ Len(schema.enum) > 0 THEN schema.enum[1]
    ELSE IF schema.type = "array" /\ schema.items # <<>> THEN
        LET itemExample == GenEx(schema.items[1], schemas, depth + 1, "", stack - 1) IN
        IF itemExample.t = "overflow" THEN Overflow
        ELSE IF Truthy(itemExample) THEN Arr(<<itemExample>>) ELSE Arr(<<>>)
    ELSE IF schema.type = "object" \/ schema.hasProps THEN
        LET kvs == IF schema.hasProps
                   THEN GenProps(schema.props, schema.required, schemas, depth, stack, 1, <<>>)
                   ELSE <<>> IN
        IF \E j \in 1..Len(kvs) : kvs[j].val.t = "overflow" THEN Overflow ELSE Obj(kvs)
    ELSE PrimitiveExample(schema, propName)

generateExampleFromSchema(schema, schemas, depth, propName) ==
    GenEx(schema, schemas, depth, propName, MaxStack)

----------------------------------------------------------------------------
(* Inputs of the example synthesis *)

AllNames == <<"N1", "N2", "N3", "N4", "N5", "N6">>
SchemaNames == {AllNames[i] : i \in 1..MaxCycle}

AllFields == <<"f1", "f2", "f3", "f4", "f5", "f6", "f7", "f8", "f9", "f10",
               "f11", "f12", "f13", "f14", "f15", "f16", "f17", "f18">>

\* the ways a named schema may lead to the named schema `target`
ShapesTo(target) ==
    { RefTo(target),
      ArrayOf(RefTo(target)),
      ObjectOf(<<P("next", RefTo(target))>>, {"next"}),
      ObjectOf(<<P("id", Prim("string")), P("child", RefTo(target)),
                 P("items", ArrayOf(RefTo(target)))>>, {}) }

NamedShapes == UNION {ShapesTo(n) : n \in SchemaNames} \cup {Prim("string")}

\* schema tables whose named schemas refer to each other in every way
CycleTables == [SchemaNames -> NamedShapes]

\* an object with NumRequired required and NumOptional optional string
\* properties; reqAt is the set of positions the required ones take
ScenarioObject(reqAt) ==
    ObjectOf([i \in 1..(NumRequired + NumOptional) |-> P(AllFields[i], Prim("string"))],
             {AllFields[i] : i \in reqAt})

ScenarioOrders ==
    {reqAt \in SUBSET (1..(NumRequired + NumOptional)) : Cardinality(reqAt) = NumRequired}

\* property schemas of every kind the synthesis distinguishes
LeafSchemas ==
    { Prim("string"), Prim("integer"), Prim(""),
      RefTo("N1"), RefTo("Missing"),
      WithExample(Prim("string"), Null), WithExample(RefTo("N1"), Str("given")),
      EnumOf(<<Str("low"), Str("high")>>),
      ArrayOf(Prim("string")),
      [Prim("integer") EXCEPT !.minimum = <<0>>] }

LeafTable == [n \in {"N1"} |-> ObjectOf(<<P("Role", Prim("string")), P("self", RefTo("N1"))>>, {"self"})]

ExInit ==
    /\ exPc = "ready"
    /\ exResult = Null
    /\ \/ /\ exSchemas \in CycleTables
          /\ exSchema = RefTo("N1")
          /\ exDepth = 0
          /\ exProp = ""
       \/ /\ exSchemas = LeafTable
          /\ \E reqAt \in ScenarioOrders : exSchema = ScenarioObject(reqAt)
          /\ exDepth = 0
          /\ exProp = ""
       \/ /\ exSchemas = LeafTable
          /\ \E a \in LeafSchemas, b \in LeafSchemas, req \in SUBSET {"f1", "f2", "f3"} :
                exSchema = ObjectOf(<<P("f1", a), P("f2", b)>>, req)
          /\ exDepth \in 0..MaxStartDepth
          /\ exProp \in {"", "body"}

ExIdle ==
    /\ exPc = "idle"
    /\ exResult = Null
    /\ exSchemas = LeafTable
    /\ exSchema = EmptySchema
    /\ exDepth = 0
    /\ exProp = ""

\* one call of generateExampleFromSchema
Synthesize ==
    /\ exPc = "ready"
    /\ exResult' = generateExampleFromSchema(exSchema, exSchemas, exDepth, exProp)
    /\ exPc' = "done"
    /\ UNCHANGED <<exSchema, exSchemas, exDepth, exProp>>
    /\ UNCHANGED normVars
    /\ UNCHANGED genVars
    /\ UNCHANGED tdVars
    /\ UNCHANGED harnessVars

NormIdle ==
    /\ normPc = "idle"
    /\ opId = <<>>
    /\ normResult = <<>>

GenIdle ==
    /\ doc = <<>>
    /\ options = <<>>
    /\ runs = <<>>

TdIdle ==
    /\ tdInfo = <<>>
    /\ tdInRows = <<>>
    /\ tdOutRows = <<>>

RtIdle ==
    /\ rtCaller = "idle"
    /\ rtPc = "idle"
    /\ rtAttempt = 0
    /\ rtLastError = <<>>
    /\ rtOutcome = <<>>
    /\ rtLog = <<>>

E2EIdle ==
    /\ e2eCase = <<>>
    /\ e2eFiles = {}
    /\ e2ePc = "idle"
    /\ e2eResult = <<>>
    /\ e2eLog = <<>>

StIdle ==
    /\ stResults = <<>>
    /\ stEnded = <<>>
    /\ stStats = <<>>
    /\ stPc = "idle"

EvIdle ==
    /\ evInputs = <<>>
    /\ evResults = <<>>
    /\ evSummary = <<>>
    /\ evPc = "idle"

HarnessIdle == RtIdle /\ E2EIdle /\ StIdle /\ EvIdle

InitExample == ExInit /\ NormIdle /\ GenIdle /\ TdIdle /\ HarnessIdle
NextExample == Synthesize
SpecExample == InitExample /\ [][NextExample]_vars

----------------------------------------------------------------------------
(* Properties of the example synthesis *)

RECURSIVE Nesting(_)
\* number of nested containers of a value
Nesting(v) ==
    IF v.t = "arr" THEN
        IF Len(v.elems) = 0 THEN 1 ELSE 1 + Nesting(v.elems[1])
    ELSE IF v.t = "obj" THEN
        LET ds == {Nesting(v.fields[i].val) : i \in 1..Len(v.fields)} IN
        1 + (IF ds = {} THEN 0 ELSE CHOOSE m \in ds : \A k \in ds : k <= m)
    ELSE 0

\* C1: on every schema table, cyclic ones included, example synthesis returns
\* without exhausting the call stack, and its result nests no deeper than the
\* levels 0..DepthCeiling allow.
C1_SynthesisTerminates ==
    exPc = "done" =>
        /\ exResult.t # "overflow"
        /\ Nesting(exResult) <= DepthCeiling + 1

\* a cycle of length 3 through a plain $ref, array items and an object property
C1_Witness ==
    /\ exPc = "done"
    /\ exSchema = RefTo("N1")
    /\ exSchemas["N1"] = RefTo("N2")
    /\ exSchemas["N2"] = ArrayOf(RefTo("N3"))
    /\ exSchemas["N3"] = ObjectOf(<<P("next", RefTo("N1"))>>, {"next"})
    /\ exResult = Arr(<<>>)

IsScenario ==
    /\ exDepth = 0
    /\ exSchema.hasProps
    /\ Len(exSchema.props) = NumRequired + NumOptional
    /\ Cardinality(exSchema.required) = NumRequired

\* C2: for the object with 3 required and 10 optional properties, in every
\* property order, the example holds all required fields, at most 2 optional
\* ones and at most 5 fields in total.
C2_ScenarioCap ==
    (exPc = "done" /\ IsScenario) =>
        /\ exSchema.required \subseteq KeySet(exResult)
        /\ Cardinality(KeySet(exResult) \ exSchema.required) <= OptionalFieldCap - NumRequired
        /\ Len(exResult.fields) <= OptionalFieldCap

SynthesizesObject ==
    /\ exDepth <= DepthCeiling
    /\ exSchema.example = <<>>
    /\ exSchema.ref = <<>>
    /\ ~exSchema.hasEnum
    /\ (exSchema.type = "object" \/ exSchema.hasProps)

DeclaredRequired ==
    {exSchema.props[i].name : i \in 1..Len(exSchema.props)} \cap exSchema.required

\* C3 as stated: every required and declared property is a key of the
\* synthesized object, whatever its schema and the depth.
C3_RequiredAlwaysPresent ==
    (exPc = "done" /\ SynthesizesObject) => DeclaredRequired \subseteq KeySet(exResult)

\* C3 amended: every required and declared property whose own synthesis, one
\* level down, is not null is a key of the synthesized object and carries that
\* value; the other required properties are absent.
C3_RequiredPresentUnlessNull ==
    (exPc = "done" /\ SynthesizesObject) =>
        \A i \in 1..Len(exSchema.props) :
            LET p == exSchema.props[i]
                ex == generateExampleFromSchema(p.schema, exSchemas, exDepth + 1, p.name) IN
            p.name \in exSchema.required =>
                IF ex.t = "null"
                THEN p.name \notin KeySet(exResult)
                ELSE \E j \in 1..Len(exResult.fields) :
                        exResult.fields[j] = [k |-> p.name, val |-> ex]

\* the required properties come last, after more optional ones than the cap
C3_Witness ==
    /\ exPc = "done"
    /\ IsScenario
    /\ exSchema.required = {AllFields[NumOptional + i] : i \in 1..NumRequired}
    /\ exSchema.required \subseteq KeySet(exResult)
    /\ Len(exResult.fields) = OptionalFieldCap + NumRequired

----------------------------------------------------------------------------
(* Operation identifiers: normalizeOperationId.  An identifier is a        *)
(* sequence of one-character strings.                                      *)

MaxIdLen == 4        \* longest enumerated identifier

LowerSeq == <<"a", "b", "c", "d", "e", "f", "g", "h", "i", "j", "k", "l", "m", "n", "o", "p", "q", "r", "s", "t", "u", "v", "w", "x", "y", "z">>
UpperSeq == <<"A", "B", "C", "D", "E", "F", "G", "H", "I", "J", "K", "L", "M", "N", "O", "P", "Q", "R", "S", "T", "U", "V", "W", "X", "Y", "Z">>
IsLower(c) == \E i \in 1..Len(LowerSeq) : LowerSeq[i] = c
IsUpper(c) == \E i \in 1..Len(UpperSeq) : UpperSeq[i] = c

\* String.prototype.toLowerCase, character by character
ToLowerChar(c) ==
    IF IsUpper(c) THEN LowerSeq[CHOOSE i \in 1..Len(UpperSeq) : UpperSeq[i] = c] ELSE c
\* the string left in the case it has
ToLowerCaseSkipped(str) == str

ToLowerCase(str) == [i \in 1..Len(str) |-> ToLowerChar(str[i])]

\* operationId.includes('.')
Includes(str, c) == \E i \in 1..Len(str) : str[i] = c

RECURSIVE CamelToDots(_, _)
\* str.replace(/([a-z])([A-Z])/g, '$1.$2'), scanning from position i: a match
\* consumes both characters and the scan resumes after them
CamelToDots(str, i) ==
    IF i > Len(str) THEN <<>>
    ELSE IF i < Len(str) /\ IsLower(str[i]) /\ IsUpper(str[i + 1])
         THEN <<str[i], ".", str[i + 1]>> \o CamelToDots(str, i + 2)
         ELSE <<str[i]>> \o CamelToDots(str, i + 1)

\* every underscore replaced, as /_/g would
ReplaceAllUnderscores(str) == [i \in 1..Len(str) |-> IF str[i] = "_" THEN "." ELSE str[i]]

\* str.replace(/_/, '.'): the first underscore only
ReplaceFirstUnderscore(str) ==
    IF Includes(str, "_")
    THEN LET k == CHOOSE j \in 1..Len(str) :
                     str[j] = "_" /\ \A m \in 1..(j - 1) : str[m] # "_" IN
         [i \in 1..Len(str) |-> IF i = k THEN "." ELSE str[i]]
    ELSE str

normalizeOperationId(operationId) ==
    IF Includes(operationId, ".")
    THEN ToLowerCase(operationId)
    ELSE ReplaceFirstUnderscore(ToLowerCase(CamelToDots(operationId, 1)))

IdChars == {"a", "b", "A", "B", "_", ".", "1"}

RECURSIVE SeqsUpTo(_, _)
\* all sequences over S of length at most n
SeqsUpTo(S, n) ==
    IF n = 0 THEN {<<>>}
    ELSE LET shorter == SeqsUpTo(S, n - 1) IN
         shorter \cup {Append(q, c) : q \in shorter, c \in S}

Id_messages_count_tokens == <<"m", "e", "s", "s", "a", "g", "e", "s", "_", "c", "o", "u", "n", "t", "_", "t", "o", "k", "e", "n", "s">>
Id_getUserProfile == <<"g", "e", "t", "U", "s", "e", "r", "P", "r", "o", "f", "i", "l", "e">>
Id_Already_Dotted == <<"A", "l", "r", "e", "a", "d", "y", ".", "D", "o", "t", "t", "e", "d">>

SampleIds == {Id_messages_count_tokens, Id_getUserProfile, Id_Already_Dotted}

NormInit ==
    /\ normPc = "ready"
    /\ opId \in SeqsUpTo(IdChars, MaxIdLen) \cup SampleIds
    /\ normResult = <<>>

\* one call of normalizeOperationId
Normalize ==
    /\ normPc = "ready"
    /\ normResult' = normalizeOperationId(opId)
    /\ normPc' = "done"
    /\ UNCHANGED opId
    /\ UNCHANGED exVars
    /\ UNCHANGED genVars
    /\ UNCHANGED tdVars
    /\ UNCHANGED harnessVars

InitNorm == NormInit /\ ExIdle /\ GenIdle /\ TdIdle /\ HarnessIdle
NextNorm == Normalize
SpecNorm == InitNorm /\ [][NextNorm]_vars

(* Properties of normalizeOperationId *)

\* the positions of str that end a lowercase-to-uppercase boundary
Boundaries(str) == {i \in 1..(Len(str) - 1) : IsLower(str[i]) /\ IsUpper(str[i + 1])}

RECURSIVE DotAfter(_, _, _)
\* str with a dot inserted after every position of B, from position i on
DotAfter(str, B, i) ==
    IF i > Len(str) THEN <<>>
    ELSE (IF i \in B THEN <<str[i], ".">> ELSE <<str[i]>>) \o DotAfter(str, B, i + 1)

\* the reference rule of the specification
ReferenceId(str) ==
    IF \E i \in 1..Len(str) : str[i] = "."
    THEN [i \in 1..Len(str) |-> ToLowerChar(str[i])]
    ELSE LET dotted == DotAfter(str, Boundaries(str), 1)
             low == [i \in 1..Len(dotted) |-> ToLowerChar(dotted[i])]
             us == {i \in 1..Len(low) : low[i] = "_"} IN
         [i \in 1..Len(low) |->
             IF i \in us /\ \A j \in us : i <= j THEN "." ELSE low[i]]

\* C6: normalizeOperationId agrees with the reference rule on every
\* identifier, and maps the three documented identifiers as documented.
C6_NormalizeMatchesRule ==
    normPc = "done" =>
        /\ normResult = ReferenceId(opId)
        /\ (opId = Id_messages_count_tokens => normResult = <<"m", "e", "s", "s", "a", "g", "e", "s", ".", "c", "o", "u", "n", "t", "_", "t", "o", "k", "e", "n", "s">>)
        /\ (opId = Id_getUserProfile => normResult = <<"g", "e", "t", ".", "u", "s", "e", "r", ".", "p", "r", "o", "f", "i", "l", "e">>)
        /\ (opId = Id_Already_Dotted => normResult = <<"a", "l", "r", "e", "a", "d", "y", ".", "d", "o", "t", "t", "e", "d">>)

\* an identifier with a camel-case boundary and two underscores
C6_Witness ==
    /\ normPc = "done"
    /\ opId = <<"a", "B", "_", "_">>
    /\ normResult = <<"a", ".", "b", ".", "_">>


----------------------------------------------------------------------------
(* Skill generation: documents, rendered lines and the two generators.     *)
(* A rendered line is a tag and a sequence of cells; a cell, like every    *)
(* text of the model, is a sequence of strings; a code fence is the tag    *)
(* fence.  An optional text is the empty sequence when absent.  A          *)
(* Record<string, string> is a sequence of [k, val] pairs in insertion     *)
(* order.                                                                  *)

MaxCaps == 2         \* most capabilities / operations of a document
NumRuns == 2         \* generation calls made on the same document

Runs == 1..NumRuns

Line(tag, cells) == [tag |-> tag, cells |-> cells]
Blank == Line("", <<>>)

RECURSIVE Join(_, _)
\* Array.prototype.join
Join(items, sep) ==
    IF Len(items) = 0 THEN <<>>
    ELSE IF Len(items) = 1 THEN <<items[1]>>
    ELSE <<items[1], sep>> \o Join(Tail(items), sep)

\* Array.prototype.slice(0, n)
Slice(items, n) == IF Len(items) <= n THEN items ELSE SubSeq(items, 1, n)

KeywordsShown == 5

MdExt == <<".", "m", "d">>
CapDir == <<"c", "a", "p", "a", "b", "i", "l", "i", "t", "i", "e", "s", "/">>

\* Object.keys of a record
ObjectKeys(kvs) == [i \in 1..Len(kvs) |-> kvs[i].k]
HasKey(kvs, k) == \E i \in 1..Len(kvs) : kvs[i].k = k

\* file.includes(word), over the common file names the generators produce
FileIncludes(file, word) ==
    \/ file = <<"auth.md">> /\ word = "auth"
    \/ file = <<"schemas/types.md">> /\ word = "schema"

\* one row of the Capabilities table
IndexRow(entry) ==
    Line("row", << entry.id,
                   Join(Slice(entry.intentKeywords, KeywordsShown), ", "),
                   entry.filePath,
                   IF Len(entry.dependencies) = 0 THEN <<"-">>
                   ELSE Join(entry.dependencies, ", ") >>)

generateSkillMd(apiName, description, meta, index, commonFiles) ==
    <<Line("# ", <<apiName>>), Blank>>
    \o (IF description # <<>> THEN <<Line("text", <<description>>), Blank>> ELSE <<>>)
    \o <<Line("~~~meta", <<>>)>>
    \o (IF meta.version # <<>> THEN <<Line("version: ", <<meta.version>>)>> ELSE <<>>)
    \o (IF meta.base_url # <<>> THEN <<Line("base_url: ", <<meta.base_url>>)>> ELSE <<>>)
    \o (IF meta.auth # <<>> THEN <<Line("auth: ", <<meta.auth>>)>> ELSE <<>>)
    \o <<Line("~~~", <<>>), Blank>>
    \o (IF Len(commonFiles) > 0
        THEN <<Line("## Common Dependencies", <<>>), Blank,
               Line("| File | Description |", <<>>), Line("|------|-------------|", <<>>)>>
             \o [i \in 1..Len(commonFiles) |->
                    Line("common", << commonFiles[i],
                        IF FileIncludes(commonFiles[i], "auth") THEN <<"Authentication setup">>
                        ELSE IF FileIncludes(commonFiles[i], "schema") THEN <<"Shared type definitions">>
                        ELSE IF FileIncludes(commonFiles[i], "pagination") THEN <<"Pagination conventions">>
                        ELSE <<"Common definitions">> >>)]
             \o <<Blank>>
        ELSE <<>>)
    \o <<Line("## Capabilities", <<>>), Blank,
         Line("| ID | Intent Keywords | File | Dependencies |", <<>>),
         Line("|----|-----------------|------|--------------|", <<>>)>>
    \o [i \in 1..Len(index) |-> IndexRow(index[i])]
    \o <<Blank>>

\* every scheme rendered by the fallback branch
generateAuthFileUntyped(meta) ==
    <<Line("# Authentication", <<>>), Blank,
      Line("Authentication type: ", <<meta.auth>>), Blank>>

\* generateAuthFile, for a meta block that carries only `auth`
generateAuthFile(meta) ==
    <<Line("# Authentication", <<>>), Blank>>
    \o (CASE meta.auth = <<"bearer">> ->
                <<Line("This API uses Bearer token authentication.", <<>>), Blank,
                  Line("## Usage", <<>>), Blank,
                  Line("Include the token in the Authorization header:", <<>>),
                  Line("fence", <<>>), Line("Authorization: Bearer {token}", <<>>), Line("fence", <<>>)>>
          [] meta.auth = <<"api_key">> ->
                <<Line("This API uses API key authentication.", <<>>), Blank,
                  Line("## Usage", <<>>), Blank,
                  Line("Include the API key in the header.", <<<<"X-API-Key">>>>)>>
          [] meta.auth = <<"oauth2">> ->
                <<Line("This API uses OAuth 2.0 authentication.", <<>>), Blank>>
          [] OTHER -> <<Line("Authentication type: ", <<meta.auth>>)>>)
    \o <<Blank>>

generateTypesFile(globalTypes) ==
    <<Line("# Shared Types", <<>>), Blank, Line("fence typescript", <<>>),
      Line("text", <<globalTypes>>), Line("fence", <<>>), Blank>>

\* generateCapabilityFile, for capabilities whose optional sections other
\* than Intention are absent
generateCapabilityFile(cap) ==
    <<Line("# Capability: ", <<cap.name>>), Blank,
      Line("~~~meta", <<>>), Line("id: ", <<cap.meta.id>>),
      Line("transport: ", <<cap.meta.transport>>)>>
    \o (IF cap.meta.auth # <<>> THEN <<Line("auth: ", <<cap.meta.auth>>)>> ELSE <<>>)
    \o <<Line("~~~", <<>>), Blank>>
    \o (IF cap.intention # <<>>
        THEN <<Line("## Intention", <<>>), Blank, Line("text", <<cap.intention>>), Blank>>
        ELSE <<>>)

\* name.includes(typeName) over the words of the model
WordIncludes(word, typeName) ==
    \/ word = typeName
    \/ word = "MessageList" /\ typeName = "Message"

\* doc.globalTypes.match(/interface\s+(\w+)|type\s+(\w+)/g) mapped to the
\* declared names; globalTypes is a sequence of words
TypeNames(globalTypes) ==
    LET at == {i \in 1..(Len(globalTypes) - 1) : globalTypes[i] \in {"interface", "type"}} IN
    {globalTypes[i + 1] : i \in at}

\* the loop over the type names left without its break: one entry for each
\* type name the capability mentions
determineMapiDependenciesNoBreak(cap, d) ==
    (IF cap.meta.auth = <<"required">>
        \/ (cap.meta.auth = <<>> /\ d.meta.auth # <<"none">>)
     THEN <<"auth">> ELSE <<>>)
    \o (IF d.globalTypes # <<>> /\ cap.rawContent # <<>>
        THEN LET mentioned == {n \in TypeNames(d.globalTypes) :
                                \E i \in 1..Len(cap.rawContent) :
                                    WordIncludes(cap.rawContent[i], n)} IN
             [k \in 1..Cardinality(mentioned) |-> "schemas/types"]
        ELSE <<>>)

\* the loop over the type names stops at the first one the capability
\* mentions (`break`), so at most one entry is pushed
determineMapiDependencies(cap, d) ==
    (IF cap.meta.auth = <<"required">>
        \/ (cap.meta.auth = <<>> /\ d.meta.auth # <<"none">>)
     THEN <<"auth">> ELSE <<>>)
    \o (IF d.globalTypes # <<>> /\ cap.rawContent # <<>>
           /\ \E n \in TypeNames(d.globalTypes) :
                 \E i \in 1..Len(cap.rawContent) : WordIncludes(cap.rawContent[i], n)
        THEN <<"schemas/types">> ELSE <<>>)

\* the schema table never consulted
determineOpenApiDependenciesAuthOnly(op, d) ==
    IF op.security # <<>> /\ Len(op.security[1]) > 0 THEN <<"auth">> ELSE <<>>

determineOpenApiDependencies(op, d) ==
    (IF op.security # <<>> /\ Len(op.security[1]) > 0 THEN <<"auth">> ELSE <<>>)
    \o (IF DOMAIN d.schemas # {} THEN <<"schemas/types">> ELSE <<>>)

\* generateAuthFromOpenApi
generateAuthFromOpenApi(d) ==
    <<Line("# Authentication", <<>>), Blank>>
    \o (IF d.auth = <<>> THEN <<Line("No authentication required.", <<>>)>>
        ELSE (CASE d.auth[1].type = "bearer" ->
                    <<Line("This API uses Bearer token authentication.", <<>>), Blank,
                      Line("## Usage", <<>>), Blank,
                      Line("fence", <<>>), Line("Authorization: Bearer {token}", <<>>),
                      Line("fence", <<>>)>>
                [] d.auth[1].type = "api_key" ->
                    <<Line("This API uses API key authentication.", <<>>)>>
                [] d.auth[1].type = "oauth2" ->
                    <<Line("This API uses OAuth 2.0 authentication.", <<>>)>>
                [] OTHER -> <<>>)
             \o <<Blank>>)

\* Object.entries(schemas): the names of the table in declaration order
SchemaOrder(schemas) ==
    LET at == {i \in 1..Len(AllNames) : AllNames[i] \in DOMAIN schemas}
        nth[k \in 0..Len(AllNames)] ==
            IF k = 0 THEN 0
            ELSE IF \E i \in at : i > nth[k - 1]
                 THEN CHOOSE i \in at : i > nth[k - 1] /\ \A j \in at : j > nth[k - 1] => i <= j
                 ELSE 0 IN
    [k \in 1..Cardinality(at) |-> AllNames[nth[k]]]

\* schemaToTypeScript(schema, name, schemas).startsWith('interface')
RendersAsInterface(schema) == schema.ref = <<>> /\ (schema.type = "object" \/ schema.hasProps)

generateSchemasFromOpenApi(schemas) ==
    <<Line("# Shared Types", <<>>), Blank, Line("fence typescript", <<>>)>>
    \o [k \in 1..(2 * Len(SchemaOrder(schemas))) |->
           IF k % 2 = 0 THEN Blank
           ELSE LET name == SchemaOrder(schemas)[(k + 1) \div 2] IN
                IF RendersAsInterface(schemas[name])
                THEN Line("interface ", <<<<name>>>>)
                ELSE Line("type ", <<<<name>>>>)]
    \o <<Line("fence", <<>>)>>

\* a || b on optional texts
OrElse(a, b) == IF a # <<>> THEN a ELSE b

\* generateCapabilityFromOperation, for operations that declare no
\* parameters, request body or responses
generateCapabilityFromOperation(op, d) ==
    <<Line("# Capability: ", <<OrElse(op.summary, op.operationId)>>), Blank,
      Line("~~~meta", <<>>), Line("id: ", <<normalizeOperationId(op.operationId)>>),
      Line("transport: HTTP ", <<op.method, op.path>>)>>
    \o (IF op.security # <<>> /\ Len(op.security[1]) > 0
        THEN <<Line("auth: required", <<>>)>> ELSE <<>>)
    \o <<Line("~~~", <<>>), Blank,
         Line("## Intention", <<>>), Blank,
         (IF OrElse(op.description, op.summary) # <<>>
          THEN Line("text", <<OrElse(op.description, op.summary)>>)
          ELSE Line("Performs operation.", <<op.operationId>>)),
         Blank>>

(* Keyword sources *)

\* extractIntentKeywords of parsers/mapi: a pure function of text and id
extractIntentKeywords(text, id) == <<"kw">> \o text

\* extractOpenApiIntentKeywords of parsers/openapi: a pure function of op
extractOpenApiIntentKeywords(op) ==
    <<"kw">> \o OrElse(op.description, OrElse(op.summary, op.operationId))

\* the deterministic stub provider: a function of id and description
StubKeywords(id, description) == <<"gen">> \o id \o description

\* the answers the provider may give to generate(id, description)
ProviderAnswers(kind, id, description) ==
    IF kind = "stub" THEN {StubKeywords(id, description)}
    ELSE {<<"x1", "x2", "x3", "x4", "x5", "x6">>, <<"y1">>}

(* One generation call *)

Event(kind, i, info) == [kind |-> kind, i |-> i, info |-> info]

IdleRun == [pc |-> "idle", i |-> 0, capabilities |-> <<>>, common |-> <<>>,
            index |-> <<>>, skillMd |-> <<>>, error |-> "", log |-> <<>>]

\* capabilities, common and index kept in module scope across calls
FreshRunShared ==
    [IdleRun EXCEPT !.pc = "loop", !.i = 1,
        !.index = IF \E q \in Runs : runs[q].pc = "done"
                  THEN runs[CHOOSE q \in Runs : runs[q].pc = "done"].index
                  ELSE <<>>]

\* `const capabilities = {}; const common = {}; const index = []`
FreshRun == [IdleRun EXCEPT !.pc = "loop", !.i = 1]

\* the entry put at the front, as unshift would
PushEntryFront(index, entry) == <<entry>> \o index

\* index.push(entry)
PushEntry(index, entry) == Append(index, entry)

\* `options.intentGenerator && cap.intention`
UsesGeneratorMapi(o, cap) == o.intentGenerator # "none" /\ cap.intention # <<>>

\* the option never consulted
UsesGeneratorNever(o, op) == FALSE

\* `options.intentGenerator`
UsesGeneratorOpenApi(o, op) == o.intentGenerator # "none"

\* the description handed to the provider for the capability at position i
ProviderDescription(d, i) ==
    IF d.kind = "mapi" THEN d.capabilities[i].intention
    ELSE LET op == d.operations[i] IN
         OrElse(op.description, OrElse(op.summary, op.operationId))

EntryId(d, i) ==
    IF d.kind = "mapi" THEN d.capabilities[i].meta.id
    ELSE normalizeOperationId(d.operations[i].operationId)

NumCaps(d) == IF d.kind = "mapi" THEN Len(d.capabilities) ELSE Len(d.operations)

\* lines 60-68 and 375-383: dependencies, then the index entry
PushIndexEntry(run, d, keywords) ==
    LET id == EntryId(d, run.i)
        deps == IF d.kind = "mapi"
                THEN determineMapiDependencies(d.capabilities[run.i], d)
                ELSE determineOpenApiDependencies(d.operations[run.i], d) IN
    [run EXCEPT !.index = PushEntry(@, [id |-> id, intentKeywords |-> keywords,
                                         filePath |-> CapDir \o id \o MdExt,
                                         dependencies |-> deps]),
                !.i = @ + 1]

\* lines 71-78 and 386-399: the index document, then the return
Finish(run, d, o) ==
    [run EXCEPT !.pc = "done",
        !.skillMd = generateSkillMd(OrElse(o.apiName, d.title), d.description,
                        IF d.kind = "mapi" THEN d.meta
                        ELSE [version |-> d.version, base_url |-> d.baseUrl,
                              auth |-> IF d.auth # <<>> THEN <<d.auth[1].type>> ELSE <<"none">>],
                        run.index, ObjectKeys(run.common))]

RECURSIVE MapiLoop(_, _, _)
\* the for loop of generateSkillFromMapi from capability run.i on, up to the
\* next await or the return
MapiLoop(run, d, o) ==
    IF run.i > Len(d.capabilities) THEN Finish(run, d, o)
    ELSE LET cap == d.capabilities[run.i]
             written == [run EXCEPT !.capabilities =
                            SetField(@, cap.meta.id \o MdExt, generateCapabilityFile(cap))] IN
         IF UsesGeneratorMapi(o, cap)
         THEN [written EXCEPT !.pc = "awaiting", !.log = Append(@, Event("generate", run.i, ""))]
         ELSE MapiLoop(PushIndexEntry(
                           [written EXCEPT !.log = Append(@, Event("heuristic", run.i, ""))], d,
                           extractIntentKeywords(OrElse(cap.intention, cap.name), cap.meta.id)),
                       d, o)

RECURSIVE OpenApiLoop(_, _, _)
\* the generate calls of all remaining operations issued before the first
\* one is awaited
OpenApiLoopEager(run, d, o) ==
    IF run.i > Len(d.operations) THEN Finish(run, d, o)
    ELSE LET op == d.operations[run.i]
             written == [run EXCEPT !.capabilities =
                            SetField(@, normalizeOperationId(op.operationId) \o MdExt,
                                     generateCapabilityFromOperation(op, d))] IN
         IF UsesGeneratorOpenApi(o, op)
         THEN [written EXCEPT !.pc = "awaiting",
                 !.log = @ \o [k \in 1..(Len(d.operations) - run.i + 1) |->
                                  Event("generate", run.i + k - 1, "")]]
         ELSE OpenApiLoop(PushIndexEntry(
                              [written EXCEPT !.log = Append(@, Event("heuristic", run.i, ""))], d,
                              extractOpenApiIntentKeywords(op)),
                          d, o)

\* the for loop of generateSkillFromOpenApi from operation run.i on
OpenApiLoop(run, d, o) ==
    IF run.i > Len(d.operations) THEN Finish(run, d, o)
    ELSE LET op == d.operations[run.i]
             written == [run EXCEPT !.capabilities =
                            SetField(@, normalizeOperationId(op.operationId) \o MdExt,
                                     generateCapabilityFromOperation(op, d))] IN
         IF UsesGeneratorOpenApi(o, op)
         THEN [written EXCEPT !.pc = "awaiting", !.log = Append(@, Event("generate", run.i, ""))]
         ELSE OpenApiLoop(PushIndexEntry(
                              [written EXCEPT !.log = Append(@, Event("heuristic", run.i, ""))], d,
                              extractOpenApiIntentKeywords(op)),
                          d, o)

\* generateSkillFromMapi up to its first await or its return
generateSkillFromMapi(d, o) ==
    LET c1 == IF d.meta.auth # <<>> /\ d.meta.auth # <<"none">>
              THEN SetField(<<>>, <<"auth.md">>, generateAuthFile(d.meta)) ELSE <<>>
        c2 == IF d.globalTypes # <<>>
              THEN SetField(c1, <<"schemas/types.md">>, generateTypesFile(d.globalTypes)) ELSE c1 IN
    MapiLoop([FreshRun EXCEPT !.common = c2], d, o)

\* generateSkillFromOpenApi up to its first await or its return
generateSkillFromOpenApi(d, o) ==
    LET c1 == IF d.auth # <<>>
              THEN SetField(<<>>, <<"auth.md">>, generateAuthFromOpenApi(d)) ELSE <<>>
        c2 == IF DOMAIN d.schemas # {}
              THEN SetField(c1, <<"schemas/types.md">>, generateSchemasFromOpenApi(d.schemas)) ELSE c1 IN
    OpenApiLoop([FreshRun EXCEPT !.common = c2], d, o)

\* the provider settles the pending call of the run: "resolved" or "rejected"
Settled(run, how, info) == [run EXCEPT !.log = Append(@, Event(how, run.i, info))]

\* the continuation of a run whose awaited generate call returned keywords
Resume(run, d, o, keywords) ==
    LET resumed == [run EXCEPT !.pc = "loop"] IN
    IF d.kind = "mapi" THEN MapiLoop(PushIndexEntry(resumed, d, keywords), d, o)
    ELSE OpenApiLoop(PushIndexEntry(resumed, d, keywords), d, o)

\* the rejected call issued once more
AbortRetry(run, err) == [run EXCEPT !.log = Append(@, Event("generate", run.i, ""))]

\* the awaited generate call rejected: the error leaves the async function
Abort(run, err) == [run EXCEPT !.pc = "rejected", !.error = err]

----------------------------------------------------------------------------
(* Documents and options handed to the generators *)

MapiIds == << <<"a", ".", "b">>, <<"a", ".", "c">>, <<"d">>, <<"e">> >>
RawContents == << <<"uses", "Message", "Role">>, <<"plain">>, <<"MessageList">>, <<"plain">> >>

\* the shared type declarations: two declared names, Message and Role
GlobalTypes == <<"interface", "Message", "{", "}", "type", "Role", "=", "string">>

\* the k-th capability of a MAPI document
MapiCapability(k, intention, auth) ==
    [name |-> <<"Cap">>, intention |-> intention, rawContent |-> RawContents[k],
     meta |-> [id |-> MapiIds[k], transport |-> <<"HTTP POST /x">>, auth |-> auth]]

\* the per-capability auth overrides, handed out in rotation: capability k
\* of a document drawn with shift s carries CapabilityAuths[((k + s) % 3) + 1]
CapabilityAuths == << <<>>, <<"required">>, <<"none">> >>

MapiDocs ==
    { [kind |-> "mapi", title |-> <<"Demo">>, description |-> <<"A demo API">>,
       meta |-> [version |-> <<"1.0">>, base_url |-> <<>>, auth |-> a],
       globalTypes |-> g,
       capabilities |-> [k \in 1..n |->
            MapiCapability(k, f[k], CapabilityAuths[((k + shift) % 3) + 1])]] :
         a \in {<<>>, <<"none">>, <<"bearer">>},
         g \in {<<>>, GlobalTypes},
         n \in {m \in 1..MaxCaps : TRUE},
         shift \in 0..2,
         f \in [1..MaxCaps -> {<<>>, <<"Send a message">>}] }

OperationIds == { <<"a", "B">>, <<"a", "_", "b">> }

\* the operationId fields of a source document: absent, or one of OperationIds
RawOperationIds == {<<>>} \cup {<<id>> : id \in OperationIds}

\* the paths of the operations, by position in the document
OperationPaths == << <<"/", "x">>, <<"/", "X">>, <<"/", "y">>, <<"/", "Y">> >>

\* the identifier the OpenAPI parser derives from method and path for an
\* operation without operationId
DeriveOperationId(method, path) == ToLowerCase(method) \o <<"_">> \o path

\* the operationId of a parsed operation: the declared one, else the derived
AssignOperationId(rawId, method, path) ==
    IF rawId # <<>> THEN rawId[1] ELSE DeriveOperationId(method, path)

\* the k-th operation of a parsed OpenAPI document
OpenApiOperation(k, rawId, security) ==
    [operationId |-> AssignOperationId(rawId, <<"G", "E", "T">>, OperationPaths[k]),
     method |-> <<"G", "E", "T">>, path |-> OperationPaths[k],
     summary |-> <<>>, description |-> <<>>, security |-> security]

\* the per-operation security fields, handed out in rotation like the
\* auth overrides: absent, an empty requirement list, one requirement
OperationSecurities == << <<>>, <<<<>>>>, <<<<"bearerAuth">>>> >>

\* to keep the documents few, the operations without operationId are the
\* first ones of a document, and the documents that have some declare no
\* auth and no schemas
OpenApiDocs ==
    LET all ==
    { [kind |-> "openapi", title |-> <<"Demo">>, description |-> <<"A demo API">>,
       version |-> <<"1.0">>, baseUrl |-> <<"https://api.example.com">>,
       auth |-> a, schemas |-> t,
       operations |-> [k \in 1..n |->
            OpenApiOperation(k, f[k], OperationSecurities[((k + shift) % 3) + 1])]] :
         a \in {<<>>, <<[type |-> "bearer"]>>},
         t \in {<<>>, [x \in {"N1"} |-> Prim("string")]},
         n \in {m \in 1..MaxCaps : TRUE},
         shift \in 0..2,
         f \in {g \in [1..MaxCaps -> RawOperationIds] :
                   \A k \in 2..MaxCaps : g[k] = <<>> => g[k - 1] = <<>>} }
        first(d) == d.operations[1] IN
    {d \in all :
        first(d).operationId = DeriveOperationId(first(d).method, first(d).path)
            => /\ d.auth = <<>>
               /\ d.schemas = <<>>
               /\ first(d).security = OperationSecurities[2]}

GeneratorKinds == {"none", "stub", "varying"}
\* the errors a generate call of the provider may reject with
ProviderErrors == {"RateLimited", "Timeout"}

\* the documents without shared types whose capabilities all have a text
\* for the provider (and, for OpenAPI, the same operationId)
PlainDocs ==
    {d \in MapiDocs : /\ d.meta.auth = <<"bearer">>
                      /\ d.globalTypes = <<>>
                      /\ \A i \in 1..Len(d.capabilities) :
                            d.capabilities[i].intention # <<>>}
    \cup {d \in OpenApiDocs : /\ d.auth = <<>>
                              /\ d.schemas = <<>>
                              /\ \A i \in 1..Len(d.operations) :
                                    d.operations[i].operationId = <<"a", "B">>}

\* every document with no provider and with the stub provider; the plain
\* documents with the provider whose answers vary from call to call
GenInit ==
    /\ doc \in MapiDocs \cup OpenApiDocs
    /\ options \in [apiName : {<<>>}, intentGenerator : GeneratorKinds]
    /\ options.intentGenerator = "varying" => doc \in PlainDocs
    /\ runs = [r \in Runs |-> IdleRun]

\* every operationId replaced by its normalized form in the document itself
DocNormalizedInPlace(d) ==
    IF d.kind = "openapi"
    THEN [d EXCEPT !.operations =
            [k \in 1..Len(d.operations) |->
                [d.operations[k] EXCEPT !.operationId = normalizeOperationId(@)]]]
    ELSE d

\* the document after a step of a generator: the generators and the routines
\* they call assign to their locals only (capabilities, common, index, lines,
\* deps, obj), never to the document, its operations or its schema table
DocAfter(d) == d

\* a call of generateSkillFromMapi or generateSkillFromOpenApi, run up to its
\* first await or to its return
Start(r) ==
    /\ runs[r].pc = "idle"
    /\ runs' = [runs EXCEPT ![r] = IF doc.kind = "mapi"
                                    THEN generateSkillFromMapi(doc, options)
                                    ELSE generateSkillFromOpenApi(doc, options)]
    /\ doc' = DocAfter(doc)
    /\ UNCHANGED options
    /\ UNCHANGED exVars
    /\ UNCHANGED normVars
    /\ UNCHANGED tdVars
    /\ UNCHANGED harnessVars

\* the pending intentGenerator.generate call of run r resolves; the run goes
\* on to its next await or to its return
Resolve(r) ==
    /\ runs[r].pc = "awaiting"
    /\ \E kw \in ProviderAnswers(options.intentGenerator, EntryId(doc, runs[r].i),
                                 ProviderDescription(doc, runs[r].i)) :
          runs' = [runs EXCEPT ![r] = Resume(Settled(runs[r], "resolved", ""), doc, options, kw)]
    /\ doc' = DocAfter(doc)
    /\ UNCHANGED options
    /\ UNCHANGED exVars
    /\ UNCHANGED normVars
    /\ UNCHANGED tdVars
    /\ UNCHANGED harnessVars

\* the pending intentGenerator.generate call of run r rejects
Reject(r) ==
    /\ runs[r].pc = "awaiting"
    /\ \E err \in ProviderErrors :
          runs' = [runs EXCEPT ![r] = Abort(Settled(runs[r], "rejected", err), err)]
    /\ doc' = DocAfter(doc)
    /\ UNCHANGED options
    /\ UNCHANGED exVars
    /\ UNCHANGED normVars
    /\ UNCHANGED tdVars
    /\ UNCHANGED harnessVars

Init == GenInit /\ ExIdle /\ NormIdle /\ TdIdle /\ HarnessIdle
Next == \E r \in Runs : Start(r) \/ Resolve(r) \/ Reject(r)
Spec == Init /\ [][Next]_vars

----------------------------------------------------------------------------
(* Properties of the generation calls *)

Finished == {r \in Runs : runs[r].pc = "done"}

SourceIds ==
    IF doc.kind = "mapi" THEN [i \in 1..Len(doc.capabilities) |-> doc.capabilities[i].meta.id]
    ELSE [i \in 1..Len(doc.operations) |-> doc.operations[i].operationId]

Distinct(ids) == \A i, j \in 1..Len(ids) : i # j => ids[i] # ids[j]

\* C4: when the source identifiers of the document are pairwise distinct, so
\* are the ids of the index entries of a finished run.
C4_IndexIdsDistinct ==
    \A r \in Finished :
        Distinct(SourceIds) => Distinct([i \in 1..Len(runs[r].index) |-> runs[r].index[i].id])

DocumentHasAuth ==
    IF doc.kind = "mapi" THEN doc.meta.auth # <<>> /\ doc.meta.auth # <<"none">>
    ELSE doc.auth # <<>> /\ doc.auth[1].type # "none"

\* the capability at position i opts out of authentication explicitly
OptsOut(i) ==
    IF doc.kind = "mapi" THEN doc.capabilities[i].meta.auth \notin {<<>>, <<"required">>}
    ELSE doc.operations[i].security = <<<<>>>>

InSeq(x, items) == \E i \in 1..Len(items) : items[i] = x

\* C5: in both formats, when the document declares an auth scheme other than
\* none, every capability that does not opt out lists auth as a dependency in
\* its index entry.
C5_AuthDependency ==
    \A r \in Finished : \A i \in 1..Len(runs[r].index) :
        (DocumentHasAuth /\ ~OptsOut(i)) => InSeq("auth", runs[r].index[i].dependencies)

Output(r) == <<runs[r].skillMd, runs[r].common, runs[r].capabilities>>

C7_DeterministicAnyProvider == \A r1, r2 \in Finished : Output(r1) = Output(r2)

Rows(r) == SelectSeq(runs[r].skillMd, LAMBDA l : l.tag = "row")

\* C8: the index of a finished run has one entry per capability, in document
\* order, and the i-th row of the Capabilities table renders the i-th
\* capability.
C8_IndexInDocumentOrder ==
    \A r \in Finished :
        /\ Len(runs[r].index) = NumCaps(doc)
        /\ Len(Rows(r)) = NumCaps(doc)
        /\ \A i \in 1..NumCaps(doc) :
              /\ runs[r].index[i].id = EntryId(doc, i)
              /\ Rows(r)[i] = IndexRow(runs[r].index[i])
              /\ Rows(r)[i].cells[1] = EntryId(doc, i)
              /\ Rows(r)[i].cells[3] = CapDir \o EntryId(doc, i) \o MdExt

\* a MAPI document of two capabilities, each awaited, in a run that finished
\* while another run was still waiting for its provider
C8_Witness ==
    /\ doc.kind = "mapi"
    /\ options.intentGenerator # "none"
    /\ Len(doc.capabilities) = 2
    /\ runs[1].pc = "done"
    /\ runs[2].pc = "awaiting"
    /\ Len(SelectSeq(runs[1].log, LAMBDA e : e.kind = "resolved")) = 2

HeuristicUsed(r, i) == \E k \in 1..Len(runs[r].log) :
                          runs[r].log[k].kind = "heuristic" /\ runs[r].log[k].i = i
GenerateCalled(r, i) == \E k \in 1..Len(runs[r].log) :
                          runs[r].log[k].kind = "generate" /\ runs[r].log[k].i = i

\* C9 as stated: with a provider supplied, no capability of either format
\* goes through the local heuristic and every entry carries provider keywords.
C9_ProviderAlwaysPrecedes ==
    options.intentGenerator # "none" =>
        \A r \in Runs :
            /\ \A i \in 1..NumCaps(doc) : ~HeuristicUsed(r, i)
            /\ \A i \in 1..Len(runs[r].index) :
                  runs[r].index[i].intentKeywords \in
                      ProviderAnswers(options.intentGenerator, EntryId(doc, i),
                                      ProviderDescription(doc, i))

\* the capability at position i has no text to hand to the provider
MapiWithoutIntention(i) == doc.kind = "mapi" /\ doc.capabilities[i].intention = <<>>

\* C9 amended: with a provider supplied, every OpenAPI operation and every
\* MAPI capability that has an intention gets the provider's keywords and
\* never the heuristic; a MAPI capability without intention gets the
\* heuristic's keywords, computed from its name, and no provider call.
C9_ProviderPrecedesWhenIntention ==
    options.intentGenerator # "none" =>
        \A r \in Runs : \A i \in 1..NumCaps(doc) :
            IF MapiWithoutIntention(i)
            THEN /\ ~GenerateCalled(r, i)
                 /\ i <= Len(runs[r].index) =>
                        /\ HeuristicUsed(r, i)
                        /\ runs[r].index[i].intentKeywords =
                              extractIntentKeywords(doc.capabilities[i].name,
                                                    doc.capabilities[i].meta.id)
            ELSE /\ ~HeuristicUsed(r, i)
                 /\ i <= Len(runs[r].index) =>
                        /\ GenerateCalled(r, i)
                        /\ runs[r].index[i].intentKeywords \in
                              ProviderAnswers(options.intentGenerator, EntryId(doc, i),
                                              ProviderDescription(doc, i))

\* a finished run with a provider over a MAPI document whose first capability
\* has an intention and whose second has none, and one over OpenAPI
C9_Witness ==
    /\ options.intentGenerator = "stub"
    /\ doc.kind = "mapi"
    /\ Len(doc.capabilities) = 2
    /\ doc.capabilities[1].intention # <<>>
    /\ doc.capabilities[2].intention = <<>>
    /\ runs[1].pc = "done"
    /\ GenerateCalled(1, 1)
    /\ HeuristicUsed(1, 2)

RejectedAt(r, k) == runs[r].log[k].kind = "rejected"

\* C10: once a generate call of a run has rejected, the run has rejected with
\* the provider's error and returned no output, the rejected call was issued
\* once, and nothing was invoked after the rejection.
C10_RejectionPropagates ==
    \A r \in Runs : \A k \in 1..Len(runs[r].log) :
        RejectedAt(r, k) =>
            /\ runs[r].pc = "rejected"
            /\ runs[r].error = runs[r].log[k].info
            /\ runs[r].skillMd = <<>>
            /\ k = Len(runs[r].log)
            /\ Len(SelectSeq(runs[r].log,
                     LAMBDA e : e.kind = "generate" /\ e.i = runs[r].log[k].i)) = 1
            /\ \A m \in 1..Len(runs[r].log) : runs[r].log[m].i <= runs[r].log[k].i
            /\ Len(runs[r].index) = runs[r].log[k].i - 1

\* the provider rejected the call for the first of two capabilities
C10_Witness ==
    /\ NumCaps(doc) = 2
    /\ options.intentGenerator = "varying"
    /\ runs[1].pc = "rejected"
    /\ runs[1].error = "Timeout"
    /\ runs[1].log = <<Event("generate", 1, ""), Event("rejected", 1, "Timeout")>>

----------------------------------------------------------------------------
(* Type descriptions and table rows: getTypeDescription,                   *)
(* generateInputTableRows, generateOutputTableRows                         *)

\* the backtick character of the source's template literals
Backtick == "<backtick>"

\* `${e}` for an enumeration member e
ValueText(v) ==
    CASE v.t = "str" -> v.s
      [] v.t = "num" -> IF v.d = 1 THEN ToString(v.n)
                        ELSE ToString(v.n) \o "/" \o ToString(v.d)
      [] v.t = "bool" -> IF v.b THEN "true" ELSE "false"
      [] OTHER -> "null"

RECURSIVE QuotedList(_, _)
\* enum.map(e => `\`${e}\``).join(', '), from member i on
QuotedList(enum, i) ==
    IF i > Len(enum) THEN <<>>
    ELSE <<Backtick, ValueText(enum[i]), Backtick>>
         \o (IF i < Len(enum) THEN <<", ">> ELSE <<>>)
         \o QuotedList(enum, i + 1)

\* `One of: ${...}`
OneOf(enum) == <<"One of: ">> \o QuotedList(enum, 1)

\* the { type, description? } object returned by getTypeDescription; threw
\* marks a call that ended in a TypeError instead of returning
TypeInfo(type, description) == [type |-> type, description |-> description, threw |-> FALSE]
TypeThrew == [type |-> <<>>, description |-> <<>>, threw |-> TRUE]

\* schemas[refName]: <<>> when the table has no such entry
Lookup(schemas, refName) ==
    IF refName \in DOMAIN schemas THEN <<schemas[refName]>> ELSE <<>>

\* resolvedSchema.enum read without the optional chaining: a TypeError when
\* the table has no entry of that name
StrictEnum(resolvedSchema) ==
    [threw |-> resolvedSchema = <<>>,
     present |-> resolvedSchema # <<>> /\ resolvedSchema[1].hasEnum,
     enum |-> IF resolvedSchema # <<>> THEN resolvedSchema[1].enum ELSE <<>>]
\* resolvedSchema?.enum
OptionalEnum(resolvedSchema) ==
    [threw |-> FALSE,
     present |-> resolvedSchema # <<>> /\ resolvedSchema[1].hasEnum,
     enum |-> IF resolvedSchema # <<>> THEN resolvedSchema[1].enum ELSE <<>>]

RECURSIVE getTypeDescription(_, _)
\* schema is <<>> for an undefined argument, <<node>> otherwise
getTypeDescription(schema, schemas) ==
    IF schema = <<>> THEN TypeInfo(<<"string">>, <<>>)
    ELSE LET node == schema[1] IN
    IF node.ref # <<>> THEN
        LET refName == IF RefName(node.ref) # "" THEN RefName(node.ref) ELSE "object"
            target == OptionalEnum(Lookup(schemas, refName)) IN
        IF target.threw THEN TypeThrew
        ELSE IF target.present THEN TypeInfo(<<"string">>, OneOf(target.enum))
        ELSE TypeInfo(<<refName>>, <<>>)
    ELSE IF node.hasEnum THEN TypeInfo(<<"string">>, OneOf(node.enum))
    ELSE IF node.type = "array" /\ node.items # <<>> THEN
        LET itemType == getTypeDescription(node.items, schemas) IN
        IF itemType.threw THEN TypeThrew
        ELSE TypeInfo(<<"array of ">> \o itemType.type, itemType.description)
    ELSE IF node.type = "object" \/ node.hasProps THEN TypeInfo(<<"object">>, <<>>)
    ELSE TypeInfo(<<IF node.type # "" THEN node.type ELSE "string">>, <<>>)

\* the lines returned by a table-row routine; threw marks a call that ended
\* in an exception
RowsOf(lines) == [lines |-> lines, threw |-> FALSE]
RowsThrew == [lines |-> <<>>, threw |-> TRUE]

\* schema.$ref ? schemas[refName] || schema : schema
ResolveForRows(schema, schemas) ==
    IF schema.ref # <<>> /\ Lookup(schemas, RefName(schema.ref)) # <<>>
    THEN schemas[RefName(schema.ref)]
    ELSE schema

\* propSchema.description || typeInfo.description || ''
RowDescription(propSchema, typeInfo) ==
    IF propSchema.description # <<>> THEN propSchema.description
    ELSE typeInfo.description

RECURSIVE InputRowsFrom(_, _, _, _)
\* the loop of generateInputTableRows over the properties, from entry i on
InputRowsFrom(props, required, schemas, i) ==
    IF i > Len(props) THEN RowsOf(<<>>)
    ELSE LET typeInfo == getTypeDescription(<<props[i].schema>>, schemas)
             rest == InputRowsFrom(props, required, schemas, i + 1) IN
         IF typeInfo.threw \/ rest.threw THEN RowsThrew
         ELSE RowsOf(<<Line("input-row",
                           <<<<props[i].name>>, typeInfo.type,
                             <<IF props[i].name \in required THEN "yes" ELSE "no">>,
                             RowDescription(props[i].schema, typeInfo)>>)>>
                     \o rest.lines)

generateInputTableRows(schema, schemas, parentRequired) ==
    LET resolvedSchema == ResolveForRows(schema, schemas) IN
    IF resolvedSchema.hasProps
    THEN InputRowsFrom(resolvedSchema.props, resolvedSchema.required, schemas, 1)
    ELSE RowsOf(<<>>)

RECURSIVE OutputRowsFrom(_, _, _)
\* the loop of generateOutputTableRows over the properties, from entry i on
OutputRowsFrom(props, schemas, i) ==
    IF i > Len(props) THEN RowsOf(<<>>)
    ELSE LET typeInfo == getTypeDescription(<<props[i].schema>>, schemas)
             rest == OutputRowsFrom(props, schemas, i + 1) IN
         IF typeInfo.threw \/ rest.threw THEN RowsThrew
         ELSE RowsOf(<<Line("output-row",
                           <<<<props[i].name>>, typeInfo.type,
                             RowDescription(props[i].schema, typeInfo)>>)>>
                     \o rest.lines)

generateOutputTableRows(schema, schemas) ==
    LET resolvedSchema == ResolveForRows(schema, schemas) IN
    IF resolvedSchema.hasProps
    THEN OutputRowsFrom(resolvedSchema.props, schemas, 1)
    ELSE RowsOf(<<>>)

----------------------------------------------------------------------------
(* Inputs of the schema routines: nodes that carry several keywords at     *)
(* once, over a table with an object, two enumerations and a missing name  *)

IntegerEnum == [Prim("integer") EXCEPT !.hasEnum = TRUE, !.enum = <<Num(1), Num(2)>>]

SchemaTable ==
    [n \in {"N1", "N2", "N3"} |->
        CASE n = "N1" -> ObjectOf(<<P("Role", RefTo("N2")),
                                    P("self", RefTo("N1")),
                                    P("note", [Prim("string") EXCEPT
                                                  !.description = <<"A note">>])>>,
                                  {"self"})
          [] n = "N2" -> EnumOf(<<Str("low"), Str("high")>>)
          [] OTHER -> IntegerEnum]

NodeExamples == {<<>>, <<Str("given")>>}
NodeRefs == {<<>>} \cup {RefTo(n).ref : n \in {"N1", "N2", "N3", "Missing"}}
NodeEnums == {<<>>, <<Str("low"), Str("high")>>}
NodeTypes == {"", "string", "integer", "array", "object"}
NodeItems == {<<>>, <<Prim("string")>>, <<RefTo("Missing")>>}
NodeProps == {<<>>, <<P("f1", RefTo("Missing"))>>}

SchemaNodes ==
    { [EmptySchema EXCEPT !.example = ex, !.ref = ref, !.hasEnum = hasEnum,
                          !.enum = enum, !.type = type, !.items = items,
                          !.hasProps = (props # <<>>), !.props = props] :
        ex \in NodeExamples, ref \in NodeRefs, hasEnum \in BOOLEAN,
        enum \in NodeEnums, type \in NodeTypes, items \in NodeItems,
        props \in NodeProps }

SchemaInit ==
    /\ exPc = "ready"
    /\ exResult = Null
    /\ exSchemas = SchemaTable
    /\ exSchema \in {n \in SchemaNodes : n.hasEnum \/ n.enum = <<>>}
    /\ exDepth \in 0..MaxStartDepth
    /\ exProp = ""

\* one call of getTypeDescription
DescribeType ==
    /\ exPc # "idle"
    /\ tdInfo = <<>>
    /\ tdInfo' = <<getTypeDescription(<<exSchema>>, exSchemas)>>
    /\ UNCHANGED <<tdInRows, tdOutRows>>
    /\ UNCHANGED exVars
    /\ UNCHANGED normVars
    /\ UNCHANGED genVars
    /\ UNCHANGED harnessVars

\* one call of generateInputTableRows
InputTableRows ==
    /\ exPc # "idle"
    /\ tdInRows = <<>>
    /\ \E parentRequired \in BOOLEAN :
          tdInRows' = <<generateInputTableRows(exSchema, exSchemas, parentRequired)>>
    /\ UNCHANGED <<tdInfo, tdOutRows>>
    /\ UNCHANGED exVars
    /\ UNCHANGED normVars
    /\ UNCHANGED genVars
    /\ UNCHANGED harnessVars

\* one call of generateOutputTableRows
OutputTableRows ==
    /\ exPc # "idle"
    /\ tdOutRows = <<>>
    /\ tdOutRows' = <<generateOutputTableRows(exSchema, exSchemas)>>
    /\ UNCHANGED <<tdInfo, tdInRows>>
    /\ UNCHANGED exVars
    /\ UNCHANGED normVars
    /\ UNCHANGED genVars
    /\ UNCHANGED harnessVars

InitSchema == SchemaInit /\ NormIdle /\ GenIdle /\ TdIdle /\ HarnessIdle
NextSchema == Synthesize \/ DescribeType \/ InputTableRows \/ OutputTableRows
SpecSchema == InitSchema /\ [][NextSchema]_vars

----------------------------------------------------------------------------
(* Properties of the schema routines *)

\* node is a reference to a name the table does not have
AbsentRef(node) == node.ref # <<>> /\ Lookup(exSchemas, RefName(node.ref)) = <<>>

\* node, its items or one of its properties is such a reference
MentionsAbsentRef(node) ==
    \/ AbsentRef(node)
    \/ node.items # <<>> /\ AbsentRef(node.items[1])
    \/ \E i \in 1..Len(node.props) : AbsentRef(node.props[i].schema)

\* C11: a reference to a schema the table does not have never makes a
\* routine fail: the synthesis answers the empty object for it when the
\* node has no example of its own and the depth is at most the ceiling, and
\* getTypeDescription and the two table-row routines return instead of
\* throwing, for the node itself as for a node that holds such a reference
C11_AbsentRefNeverFails ==
    /\ (AbsentRef(exSchema) /\ exPc = "done" /\ exSchema.example = <<>>
            /\ exDepth <= DepthCeiling)
        => exResult = Obj(<<>>)
    /\ MentionsAbsentRef(exSchema) =>
        /\ exResult.t # "overflow"
        /\ tdInfo # <<>> => ~tdInfo[1].threw
        /\ tdInRows # <<>> => ~tdInRows[1].threw
        /\ tdOutRows # <<>> => ~tdOutRows[1].threw

C11_Witness ==
    /\ AbsentRef(exSchema)
    /\ exSchema.example = <<>>
    /\ exDepth = DepthCeiling
    /\ exPc = "done"
    /\ exResult = Obj(<<>>)
    /\ tdInfo = <<TypeInfo(<<"Missing">>, <<>>)>>
    /\ tdInRows = <<RowsOf(<<>>)>>
    /\ tdOutRows = <<RowsOf(<<>>)>>

\* C16: for a node that is a reference, getTypeDescription reports the
\* declared type of the target and the list of all its members, each between
\* backticks, when the target is an enumeration, and the referenced name
\* without a description when the target is anything else or is absent
C16_RefReportsEnumKind ==
    (tdInfo # <<>> /\ exSchema.ref # <<>>) =>
        LET refName == RefName(exSchema.ref)
            target == Lookup(exSchemas, refName) IN
        IF target # <<>> /\ target[1].hasEnum
        THEN /\ ~tdInfo[1].threw
             /\ tdInfo[1].type = <<target[1].type>>
             /\ LET d == tdInfo[1].description
                     enum == target[1].enum IN
                /\ Len(d) = 4 * Len(enum)
                /\ d[1] = "One of: "
                /\ \A i \in 1..Len(enum) :
                      /\ d[4 * i - 2] = Backtick
                      /\ d[4 * i - 1] = ValueText(enum[i])
                      /\ d[4 * i] = Backtick
                      /\ i < Len(enum) => d[4 * i + 1] = ", "
        ELSE tdInfo[1] = TypeInfo(<<refName>>, <<>>)

\* the rules of the synthesis, by the keywords a node carries
HasExample(node) == node.example # <<>>
HasRef(node) == node.ref # <<>>
HasMembers(node) == node.hasEnum /\ Len(node.enum) > 0
IsArray(node) == node.type = "array" /\ node.items # <<>>
IsObject(node) == node.type = "object" \/ node.hasProps

\* C17: at a depth within the ceiling the first applicable rule decides the
\* result, in the order example, reference, enumeration, array, object,
\* primitive: the explicit example is returned as it is; otherwise a
\* reference gives the synthesis of its target one level down (the empty
\* object when absent) whatever else the node declares; otherwise a
\* non-empty enumeration gives its first member; otherwise an array with
\* items gives an array; otherwise an object gives an object; otherwise the
\* result is the primitive example
C17_RulePrecedence ==
    (exPc = "done" /\ exDepth <= DepthCeiling) =>
        IF HasExample(exSchema) THEN exResult = exSchema.example[1]
        ELSE IF HasRef(exSchema) THEN
            LET refName == RefName(exSchema.ref) IN
            exResult = IF refName \in DOMAIN exSchemas
                       THEN generateExampleFromSchema(exSchemas[refName], exSchemas,
                                                      exDepth + 1, refName)
                       ELSE Obj(<<>>)
        ELSE IF HasMembers(exSchema) THEN exResult = exSchema.enum[1]
        ELSE IF IsArray(exSchema) THEN exResult.t = "arr"
        ELSE IF IsObject(exSchema) THEN exResult.t = "obj"
        ELSE exResult = PrimitiveExample(exSchema, exProp)

\* a reference to the integer enumeration on a node that also declares an
\* enumeration of its own, an array type with items and properties
C17_Witness ==
    /\ exPc = "done"
    /\ exDepth = 0
    /\ ~HasExample(exSchema)
    /\ exSchema.ref = RefTo("N3").ref
    /\ HasMembers(exSchema)
    /\ IsArray(exSchema)
    /\ IsObject(exSchema)
    /\ exResult = Num(1)

\* the larger of two depths
Deeper(a, b) == IF a >= b THEN a ELSE b

RECURSIVE DeepestCall(_, _, _, _)
RECURSIVE DeepestInProps(_, _, _, _, _, _, _)

\* the largest depth argument among the calls the loop over the properties
\* makes, from entry i on, obj being the fields stored so far
DeepestInProps(props, required, schemas, depth, stack, i, obj) ==
    IF i > Len(props) THEN depth
    ELSE LET p == props[i] IN
         IF AdmitField(p.name, required, obj)
         THEN LET ex == GenEx(p.schema, schemas, depth + 1, p.name, stack - 1) IN
              Deeper(DeepestCall(p.schema, schemas, depth + 1, stack - 1),
                     DeepestInProps(props, required, schemas, depth, stack, i + 1,
                                    StoreField(obj, p.name, ex)))
         ELSE DeepestInProps(props, required, schemas, depth, stack, i + 1, obj)

\* the largest depth argument among the call
\* generateExampleFromSchema(schema, schemas, depth) and the calls it makes
DeepestCall(schema, schemas, depth, stack) ==
    IF stack = 0 THEN depth
    ELSE IF PastCeiling(depth) THEN depth
    ELSE IF schema.example # <<>> THEN depth
    ELSE IF schema.ref # <<>> THEN
        IF RefName(schema.ref) \in DOMAIN schemas
        THEN DeepestCall(schemas[RefName(schema.ref)], schemas, depth + 1, stack - 1)
        ELSE depth
    ELSE IF schema.hasEnum /\ Len(schema.enum) > 0 THEN depth
    ELSE IF schema.type = "array" /\ schema.items # <<>> THEN
        DeepestCall(schema.items[1], schemas, depth + 1, stack - 1)
    ELSE IF schema.hasProps THEN
        DeepestInProps(schema.props, schema.required, schemas, depth, stack, 1, <<>>)
    ELSE depth

\* C18: the ceiling applies before every other rule: a call with a depth
\* above 3 returns null whatever the node carries, an explicit example
\* included; a call at depth 0 makes no call with a depth above 4, and its
\* result nests at most four containers, those of the levels 0 to 3
C18_CeilingUnconditional ==
    exPc = "done" =>
        /\ exDepth > DepthCeiling => exResult = Null
        /\ exDepth = 0 =>
            /\ DeepestCall(exSchema, exSchemas, 0, MaxStack) <= DepthCeiling + 1
            /\ Nesting(exResult) <= DepthCeiling + 1

\* a node with an explicit example, asked for one level past the ceiling
C18_Witness ==
    /\ exPc = "done"
    /\ exDepth = DepthCeiling + 1
    /\ HasExample(exSchema)
    /\ exResult = Null

\* the chain through N1 and its property self reaches depth 4 from depth 0
C18_ChainReachesCeiling ==
    /\ exPc = "done"
    /\ exDepth = 0
    /\ exSchema.ref = RefTo("N1").ref
    /\ DeepestCall(exSchema, exSchemas, 0, MaxStack) = DepthCeiling + 1

----------------------------------------------------------------------------
(* Properties of the common files and of the dependency lists *)

\* the file of that name among the common files of run r, as a sequence of
\* zero or one files
CommonFile(r, name) ==
    LET at == {j \in 1..Len(runs[r].common) : runs[r].common[j].k = name} IN
    IF at = {} THEN <<>> ELSE <<runs[r].common[CHOOSE j \in at : TRUE].val>>

\* C12: for a MAPI document whose meta block declares auth bearer, the
\* common files of a finished run hold auth.md with the line
\* `Authorization: Bearer {token}`, and the index entry of every capability
\* without an auth override of its own lists auth among its dependencies
C12_BearerAuthFile ==
    \A r \in Finished :
        (doc.kind = "mapi" /\ doc.meta.auth = <<"bearer">>) =>
            /\ CommonFile(r, <<"auth.md">>) # <<>>
            /\ InSeq(Line("Authorization: Bearer {token}", <<>>),
                     CommonFile(r, <<"auth.md">>)[1])
            /\ \A i \in 1..Len(doc.capabilities) :
                  doc.capabilities[i].meta.auth = <<>> =>
                      InSeq("auth", runs[r].index[i].dependencies)

\* the scenario itself: one capability, no override, no shared types
C12_Witness ==
    /\ doc.kind = "mapi"
    /\ doc.meta.auth = <<"bearer">>
    /\ Len(doc.capabilities) = 1
    /\ doc.capabilities[1].meta.auth = <<>>
    /\ 1 \in Finished
    /\ ObjectKeys(runs[1].common) = <<<<"auth.md">>>>
    /\ runs[1].index[1].dependencies = <<"auth">>

\* C19: for an OpenAPI document the dependency list of every index entry
\* contains schemas/types exactly when the schema table of the document has
\* at least one entry
C19_TypesIffSchemas ==
    \A r \in Finished :
        doc.kind = "openapi" =>
            \A i \in 1..Len(runs[r].index) :
                InSeq("schemas/types", runs[r].index[i].dependencies)
                    <=> (DOMAIN doc.schemas # {})

\* an operation without security of a document with one named schema
C19_Witness ==
    /\ doc.kind = "openapi"
    /\ DOMAIN doc.schemas = {"N1"}
    /\ 1 \in Finished
    /\ doc.operations[1].security = <<>>
    /\ runs[1].index[1].dependencies = <<"schemas/types">>

\* C20: in both formats the dependency list of every index entry is one of
\* the four duplicate-free lists over auth and schemas/types with auth
\* first, also for a capability whose raw content mentions several of the
\* declared type names
C20_DependenciesOrdered ==
    \A r \in Finished : \A i \in 1..Len(runs[r].index) :
        runs[r].index[i].dependencies \in
            {<<>>, <<"auth">>, <<"schemas/types">>, <<"auth", "schemas/types">>}

\* a capability that mentions both declared type names and needs auth
C20_Witness ==
    /\ doc.kind = "mapi"
    /\ 1 \in Finished
    /\ TypeNames(doc.globalTypes) = {"Message", "Role"}
    /\ \A n \in TypeNames(doc.globalTypes) : InSeq(n, doc.capabilities[1].rawContent)
    /\ runs[1].index[1].dependencies = <<"auth", "schemas/types">>

----------------------------------------------------------------------------
(* Properties of the operations without operationId *)

\* the operation at position i carries the identifier the parser derived
Unnamed(i) ==
    doc.operations[i].operationId =
        DeriveOperationId(doc.operations[i].method, doc.operations[i].path)

C13_UnnamedOperationHasEntry ==
    \A r \in Finished :
        doc.kind = "openapi" =>
            /\ Len(runs[r].index) = Len(doc.operations)
            /\ \A i \in 1..Len(doc.operations) :
                  Unnamed(i) => runs[r].index[i].id # <<>>

----------------------------------------------------------------------------
(* Properties of the calls of the provider *)

\* the positions of the log of run r that hold an event of one of the kinds
EventsAt(r, kinds) == {k \in 1..Len(runs[r].log) : runs[r].log[k].kind \in kinds}

\* C14: in every run the generate calls are issued at most once per
\* capability and in document order, every call is settled before the next
\* one is issued, and the run is suspended exactly while its last call is
\* not yet settled
C14_CallsSequential ==
    \A r \in Runs :
        LET log == runs[r].log
            calls == EventsAt(r, {"generate"})
            settled == EventsAt(r, {"resolved", "rejected"}) IN
        /\ \A k1, k2 \in calls :
              k1 < k2 =>
                  /\ log[k1].i < log[k2].i
                  /\ \E k \in settled : k1 < k /\ k < k2 /\ log[k].i = log[k1].i
        /\ \A k \in calls : log[k].i \in 1..NumCaps(doc)
        /\ \A k \in settled : k - 1 \in calls /\ log[k - 1].i = log[k].i
        /\ runs[r].pc = "awaiting" <=> (Len(log) > 0 /\ Len(log) \in calls)

\* one run returned after two settled calls while the call of another run
\* for the first capability is still pending
C14_Witness ==
    \E r1, r2 \in Runs :
        /\ runs[r1].pc = "done"
        /\ [k \in 1..Len(runs[r1].log) |-> runs[r1].log[k].kind]
               = <<"generate", "resolved", "generate", "resolved">>
        /\ runs[r2].pc = "awaiting"
        /\ runs[r2].log = <<Event("generate", 1, "")>>

----------------------------------------------------------------------------
(* Properties of the inputs of a run *)

RECURSIVE SoloRuns(_, _, _)
\* the ways a call that is alone may end, from the state `run` on: one for
\* each sequence of answers of the provider
SoloRuns(run, d, o) ==
    IF run.pc = "awaiting"
    THEN UNION { SoloRuns(Resume(Settled(run, "resolved", ""), d, o, kw), d, o) :
                   kw \in ProviderAnswers(o.intentGenerator, EntryId(d, run.i),
                                          ProviderDescription(d, run.i)) }
    ELSE {run}

\* the outputs of a call on d and o that runs alone
SoloOutputs(d, o) ==
    { <<run.skillMd, run.common, run.capabilities>> :
        run \in SoloRuns(IF d.kind = "mapi" THEN generateSkillFromMapi(d, o)
                         ELSE generateSkillFromOpenApi(d, o), d, o) }

\* every finished run returned an output of a call that runs alone
SoloEquivalent == \A r \in Finished : Output(r) \in SoloOutputs(doc, options)

----------------------------------------------------------------------------
(* Algebraic properties of normalizeOperationId *)

\* C30: the identifier returned by normalizeOperationId is a fixed point of
\* normalizeOperationId and holds no uppercase letter
C30_NormalizeIdempotentLowercase ==
    normPc = "done" =>
        /\ normalizeOperationId(normResult) = normResult
        /\ \A i \in 1..Len(normResult) : ~IsUpper(normResult[i])

\* a camelCase identifier with two underscores: the result has a dot from
\* the case boundary, a dot from the first underscore, and keeps the second
C30_Witness ==
    /\ normPc = "done"
    /\ opId = <<"a", "B", "_", "_">>
    /\ normResult = <<"a", ".", "b", ".", "_">>
    /\ normalizeOperationId(normResult) = normResult

----------------------------------------------------------------------------
(* Properties that relate the index to the files of the output *)

\* the common file a dependency name stands for
DependencyFile(dep) == <<dep \o ".md">>

\* C28: every dependency listed by an index entry of a finished run names a
\* file of the common map of that run: auth.md for auth, schemas/types.md
\* for schemas/types
C28_DependenciesProduced ==
    \A r \in Finished : \A i \in 1..Len(runs[r].index) :
        \A k \in 1..Len(runs[r].index[i].dependencies) :
            HasKey(runs[r].common, DependencyFile(runs[r].index[i].dependencies[k]))

\* C29: for a document whose source identifiers are pairwise distinct, the
\* file path of every index entry of a finished run is capabilities/
\* followed by a key of the capabilities map, the map has as many files as
\* the index has entries, and the file under the key of entry i is the body
\* generated for capability i
C29_FilesMatchIndex ==
    \A r \in Finished :
        Distinct(SourceIds) =>
            /\ Len(runs[r].capabilities) = Len(runs[r].index)
            /\ \A i \in 1..Len(runs[r].index) :
                  \E j \in 1..Len(runs[r].capabilities) :
                      /\ runs[r].index[i].filePath = CapDir \o runs[r].capabilities[j].k
                      /\ runs[r].capabilities[j].val =
                            IF doc.kind = "mapi"
                            THEN generateCapabilityFile(doc.capabilities[i])
                            ELSE generateCapabilityFromOperation(doc.operations[i], doc)

----------------------------------------------------------------------------
(* The test harness: callClaude and withRetry                              *)
(* (tests/harness/src/llm/anthropic.ts)                                    *)

MAX_RETRIES == 5
BASE_DELAY_MS == 3000

\* an error thrown by a request: status is 0 and type is "" when the field
\* is absent, message is the sequence of its words
Error(name, status, type, message) ==
    [name |-> name, status |-> status, type |-> type, message |-> message]

Err429 == Error("Error", 429, "rate_limit_error", <<"Too", "many", "requests">>)
ErrOverloaded == Error("Error", 0, "", <<"Overloaded">>)
ErrConnection == Error("Error", 0, "", <<"Connection", "error">>)
ErrTimeout == Error("Error", 0, "", <<"Request", "timeout">>)
ErrGenerate == Error("Error", 500, "api_error", <<"Failed", "to", "generate">>)
ErrInvalid == Error("Error", 400, "invalid_request_error", <<"Invalid", "request">>)
ErrBare == Error("Error", 0, "", <<>>)

RequestErrors == {Err429, ErrOverloaded, ErrConnection, ErrTimeout, ErrGenerate,
                  ErrInvalid, ErrBare}

\* new RateLimitExhaustedError(`Rate limit exhausted after ${MAX_RETRIES} retries on ...`)
RateLimitExhaustedError ==
    Error("RateLimitExhaustedError", 0, "",
          <<"Rate", "limit", "exhausted", "after", ToString(MAX_RETRIES), "retries">>)

\* String.prototype.toLowerCase on the words of the messages
LowerWord(w) ==
    CASE w = "Too" -> "too"
      [] w = "Overloaded" -> "overloaded"
      [] w = "Connection" -> "connection"
      [] w = "Request" -> "request"
      [] w = "Failed" -> "failed"
      [] w = "Invalid" -> "invalid"
      [] w = "Rate" -> "rate"
      [] OTHER -> w

\* error?.message?.toLowerCase() || ""
LowerMessage(error) == [i \in 1..Len(error.message) |-> LowerWord(error.message[i])]

\* word.includes(part), for the words and parts of the model
WordHasPart(word, part) == word = part \/ (word = "generate" /\ part = "rate")

\* msg.includes(phrase), phrase being a sequence of words
MsgIncludes(msg, phrase) ==
    \E i \in 1..(Len(msg) - Len(phrase) + 1) :
        \A k \in 1..Len(phrase) : WordHasPart(msg[i + k - 1], phrase[k])

isRateLimitError(error) ==
    LET msg == LowerMessage(error) IN
    \/ error.status = 429 \/ error.status = 529
    \/ error.type = "rate_limit_error"
    \/ MsgIncludes(msg, <<"429">>) \/ MsgIncludes(msg, <<"rate">>)
    \/ MsgIncludes(msg, <<"overloaded">>)
    \/ MsgIncludes(msg, <<"connection", "error">>)
    \/ MsgIncludes(msg, <<"connection", "reset">>)

\* every error taken for a transient one
isTransientErrorAlways(error) == TRUE

isTransientError(error) ==
    LET msg == LowerMessage(error) IN
    \/ isRateLimitError(error)
    \/ MsgIncludes(msg, <<"connection">>) \/ MsgIncludes(msg, <<"timeout">>)
    \/ MsgIncludes(msg, <<"econnreset">>)

RECURSIVE Pow2(_)
\* Math.pow(2, k)
Pow2(k) == IF k = 0 THEN 1 ELSE 2 * Pow2(k - 1)

\* the wait taken after the last attempt as well
ShouldWaitAlways(error, attempt) == isTransientError(error)

\* `isTransientError(error) && attempt < MAX_RETRIES - 1`
ShouldWait(error, attempt) == isTransientError(error) /\ attempt < MAX_RETRIES - 1

\* the special error thrown whatever the last error was
AfterLoopAlwaysExhausted(lastError) == RateLimitExhaustedError

\* the statements after the for loop: the error withRetry throws
AfterLoop(lastError) ==
    IF isRateLimitError(lastError) THEN RateLimitExhaustedError ELSE lastError

\* entries of rtLog
RtEvent(kind, attempt, err, ms, value) ==
    [kind |-> kind, attempt |-> attempt, err |-> err, ms |-> ms, value |-> value]

\* the values a request may resolve with
RequestValues == {"v1", "v2"}

\* what a call returned or threw
Returned(value) == [kind |-> "returned", value |-> value, err |-> <<>>]
Threw(err) == [kind |-> "threw", value |-> "", err |-> <<err>>]

\* the head of the for loop of withRetry reached with the given attempt:
\* either fn is called (the await suspends the call) or the loop is left
\* and the statements after it throw
LoopHead(attempt, lastError, log) ==
    IF attempt < MAX_RETRIES
    THEN [pc |-> "pending", attempt |-> attempt, outcome |-> <<>>,
          log |-> Append(log, RtEvent("call", attempt, <<>>, 0, ""))]
    ELSE [pc |-> "threw", attempt |-> attempt,
          outcome |-> <<Threw(AfterLoop(lastError[1]))>>, log |-> log]

\* the catch block of withRetry for the error of the given attempt
CatchBlock(error, attempt, log) ==
    LET failed == Append(log, RtEvent("fail", attempt, <<error>>, 0, "")) IN
    IF ShouldWait(error, attempt)
    THEN [pc |-> "sleeping", attempt |-> attempt, outcome |-> <<>>,
          log |-> Append(failed, RtEvent("wait", attempt, <<>>,
                                         BASE_DELAY_MS * Pow2(attempt), ""))]
    ELSE IF ~isTransientError(error)
    THEN [pc |-> "threw", attempt |-> attempt, outcome |-> <<Threw(error)>>, log |-> failed]
    ELSE LoopHead(attempt + 1, <<error>>, failed)

RtInit ==
    /\ rtCaller \in {"callClaude", "withRetry"}
    /\ rtPc = "ready"
    /\ rtAttempt = 0
    /\ rtLastError = <<>>
    /\ rtOutcome = <<>>
    /\ rtLog = <<>>

RtFrame ==
    /\ UNCHANGED exVars
    /\ UNCHANGED normVars
    /\ UNCHANGED genVars
    /\ UNCHANGED tdVars
    /\ UNCHANGED e2eVars
    /\ UNCHANGED stVars
    /\ UNCHANGED evVars

\* callClaude or withRetry is called and issues its first request
Begin ==
    /\ rtPc = "ready"
    /\ LET next == LoopHead(0, <<>>, rtLog) IN
        /\ rtPc' = next.pc
        /\ rtLog' = next.log
    /\ UNCHANGED <<rtCaller, rtAttempt, rtLastError, rtOutcome>>
    /\ RtFrame

\* the pending request resolves: both callers return its value
RequestResolves ==
    /\ rtPc = "pending"
    /\ \E v \in RequestValues :
        /\ rtLog' = Append(rtLog, RtEvent("ok", rtAttempt, <<>>, 0, v))
        /\ rtOutcome' = <<Returned(v)>>
    /\ rtPc' = "returned"
    /\ UNCHANGED <<rtCaller, rtAttempt, rtLastError>>
    /\ RtFrame

\* the pending request rejects: callClaude lets the error through, withRetry
\* runs its catch block
RequestRejects ==
    /\ rtPc = "pending"
    /\ \E error \in RequestErrors :
        IF rtCaller = "callClaude"
        THEN /\ rtPc' = "threw"
             /\ rtOutcome' = <<Threw(error)>>
             /\ rtLog' = Append(rtLog, RtEvent("fail", rtAttempt, <<error>>, 0, ""))
             /\ UNCHANGED <<rtAttempt, rtLastError>>
        ELSE LET next == CatchBlock(error, rtAttempt, rtLog) IN
             /\ rtPc' = next.pc
             /\ rtAttempt' = next.attempt
             /\ rtOutcome' = next.outcome
             /\ rtLog' = next.log
             /\ rtLastError' = <<error>>
    /\ UNCHANGED rtCaller
    /\ RtFrame

\* the sleep of withRetry ends: the loop goes on with the next attempt
SleepEnds ==
    /\ rtPc = "sleeping"
    /\ LET next == LoopHead(rtAttempt + 1, rtLastError, rtLog) IN
        /\ rtPc' = next.pc
        /\ rtAttempt' = next.attempt
        /\ rtOutcome' = next.outcome
        /\ rtLog' = next.log
    /\ UNCHANGED <<rtCaller, rtLastError>>
    /\ RtFrame

InitRetry ==
    /\ RtInit /\ ExIdle /\ NormIdle /\ GenIdle /\ TdIdle
    /\ E2EIdle /\ StIdle /\ EvIdle
NextRetry == Begin \/ RequestResolves \/ RequestRejects \/ SleepEnds
SpecRetry == InitRetry /\ [][NextRetry]_vars

\* a request that is pending settles, and a sleep that was started ends
SpecRetryFair == SpecRetry /\ WF_vars(NextRetry)

----------------------------------------------------------------------------
(* Properties of withRetry and callClaude *)

\* the positions of rtLog that hold an event of the kind
RtAt(kind) == {k \in 1..Len(rtLog) : rtLog[k].kind = kind}

RtEnded == rtPc \in {"returned", "threw"}

\* the bounds of a call of withRetry: at most MAX_RETRIES requests; a wait
\* only after the failed attempt k in 0..3, of 3000 * 2^k ms, and followed by
\* the request of attempt k + 1; a success is the last event and its value is
\* the value returned
RetryBounds ==
    rtCaller = "withRetry" =>
        /\ Cardinality(RtAt("call")) <= MAX_RETRIES
        /\ Cardinality(RtAt("wait")) <= MAX_RETRIES - 1
        /\ \A w \in RtAt("wait") :
              /\ rtLog[w].attempt \in 0..(MAX_RETRIES - 2)
              /\ rtLog[w].ms = 3000 * Pow2(rtLog[w].attempt)
              /\ rtLog[w - 1].kind = "fail" /\ rtLog[w - 1].attempt = rtLog[w].attempt
              /\ IF w = Len(rtLog) THEN rtPc = "sleeping"
                 ELSE /\ rtLog[w + 1].kind = "call"
                      /\ rtLog[w + 1].attempt = rtLog[w].attempt + 1
        /\ \A k \in RtAt("ok") :
              /\ k = Len(rtLog)
              /\ rtPc = "returned"
              /\ rtOutcome = <<Returned(rtLog[k].value)>>
        /\ rtPc = "returned" => Len(rtLog) \in RtAt("ok")
        /\ RtEnded <=> rtOutcome # <<>>

\* C24: a call of withRetry whose requests all settle ends, by returning or
\* by throwing, and until then it stays within the bounds above: at most 5
\* requests, at most 4 waits of 3000, 6000, 12000 and 24000 ms between
\* attempts, no request after a success, whose value is returned
C24_RetryTerminates == []RetryBounds /\ <>RtEnded

\* four failed attempts, the four waits, and the fifth attempt succeeds
C24_Witness ==
    /\ rtCaller = "withRetry"
    /\ rtPc = "returned"
    /\ Cardinality(RtAt("call")) = MAX_RETRIES
    /\ [k \in 1..4 |-> rtLog[3 * k].ms] = <<3000, 6000, 12000, 24000>>
    /\ rtLog[Len(rtLog)].kind = "ok"
    /\ rtOutcome = <<Returned("v2")>>

\* C25: in a call of withRetry a failure with a non-transient error is the
\* last event, the call has thrown that very error and no wait was taken for
\* it; after five failures the call has thrown RateLimitExhaustedError when
\* the last error counts as a rate-limit error and the last error itself
\* otherwise; RateLimitExhaustedError is thrown after five requests only
C25_RetryErrorOutcomes ==
    rtCaller = "withRetry" =>
        /\ \A k \in RtAt("fail") :
              ~isTransientError(rtLog[k].err[1]) =>
                  /\ k = Len(rtLog)
                  /\ rtPc = "threw"
                  /\ rtOutcome = <<Threw(rtLog[k].err[1])>>
        /\ Cardinality(RtAt("fail")) = MAX_RETRIES =>
              LET last == rtLog[Len(rtLog)].err[1] IN
              /\ rtPc = "threw"
              /\ rtLog[Len(rtLog)].kind = "fail"
              /\ rtOutcome = IF isRateLimitError(last)
                             THEN <<Threw(RateLimitExhaustedError)>>
                             ELSE <<Threw(last)>>
        /\ rtOutcome = <<Threw(RateLimitExhaustedError)>> =>
              Cardinality(RtAt("call")) = MAX_RETRIES

\* five transient failures, the last one a timeout, which is not a
\* rate-limit error: the timeout itself is thrown
C25_Witness ==
    /\ rtCaller = "withRetry"
    /\ Cardinality(RtAt("fail")) = MAX_RETRIES
    /\ rtLog[2].err = <<Err429>>
    /\ rtLog[Len(rtLog)].err = <<ErrTimeout>>
    /\ rtOutcome = <<Threw(ErrTimeout)>>

----------------------------------------------------------------------------
(* The end-to-end runner: runE2ETest and its four phases *)

\* the capability ids the two test cases expect
ListCapability == "billingAccounts.list"
GetCapability == "billingAccounts.get"

\* TEST_CASES: the id and the expected capability of each test case
TEST_CASES ==
    { [id |-> "gcp-001", expectedCapability |-> ListCapability],
      [id |-> "gcp-002", expectedCapability |-> GetCapability] }

\* what phase1_matchIntent can return: null for a content block that is not
\* text, else the trimmed text of the reply
Phase1Replies ==
    { <<>>, <<"">>, <<ListCapability>>, <<GetCapability>>, <<"projects.get">> }

\* what JSON.parse hands back in phase2_constructRequest: the literal null or
\* a request object; "invalid" stands for a text JSON.parse rejects
Phase2Replies == {"null", "request", "invalid"}

\* what response.json() hands back in phase3_executeRequest
Phase3Replies == {"null", "expected", "error", "other"}

\* the result object runE2ETest starts from
E2EResult0(testCase) ==
    [ testId |-> testCase.id,
      phase1_matchedCapability |-> <<>>,
      phase1_correct |-> FALSE,
      phase2_requestConstructed |-> "null",
      phase3_responseReceived |-> "null",
      phase4_validationPassed |-> FALSE,
      phase4_validationReason |-> "",
      overallPass |-> FALSE,
      error |-> <<>> ]

\* !matchedCapability: null and the empty string are falsy
NoMatch(matched) == matched = <<>> \/ matched = <<"">>

\* loadCapability: throws when the capability file does not exist
loadCapability(files, capabilityId) ==
    IF capabilityId \notin files
    THEN [threw |-> TRUE, message |-> "Capability file not found"]
    ELSE [threw |-> FALSE, message |-> ""]

\* testCase.validateResponse: reading a property of null throws a TypeError
validateResponse(resp) ==
    CASE resp = "null" ->
           [threw |-> TRUE, pass |-> FALSE,
            reason |-> "Cannot read properties of null"]
      [] resp = "expected" ->
           [threw |-> FALSE, pass |-> TRUE, reason |-> "Got the expected body"]
      [] resp = "error" ->
           [threw |-> FALSE, pass |-> FALSE, reason |-> "API error"]
      [] OTHER ->
           [threw |-> FALSE, pass |-> FALSE, reason |-> "Expected body missing"]

OverallPassPhase4Only(phase1_correct, phase4_validationPassed) ==
    phase4_validationPassed

\* result.overallPass = result.phase1_correct && result.phase4_validationPassed
OverallPass(phase1_correct, phase4_validationPassed) ==
    phase1_correct /\ phase4_validationPassed

\* catch (error) { result.error = error.message } and the return
E2ECaught(result, log, message) ==
    /\ e2eResult' = <<[result EXCEPT !.error = <<message>>]>>
    /\ e2eLog' = Append(log, "threw")
    /\ e2ePc' = "done"

E2EInit ==
    /\ e2eCase \in {<<t>> : t \in TEST_CASES}
    /\ e2eFiles \in SUBSET {ListCapability, GetCapability}
    /\ e2ePc = "ready"
    /\ e2eResult = <<>>
    /\ e2eLog = <<>>

E2EFrame ==
    /\ UNCHANGED exVars
    /\ UNCHANGED normVars
    /\ UNCHANGED genVars
    /\ UNCHANGED tdVars
    /\ UNCHANGED rtVars
    /\ UNCHANGED stVars
    /\ UNCHANGED evVars
    /\ UNCHANGED <<e2eCase, e2eFiles>>

\* runE2ETest is called: it builds the result and loads Skill.md; when that
\* succeeds phase1_matchIntent sends its request
E2EBegin ==
    /\ e2ePc = "ready"
    /\ LET result == E2EResult0(e2eCase[1])
           log == <<"loadSkillIndex">> IN
       \E readFails \in BOOLEAN :
           IF readFails
           THEN E2ECaught(result, log, "ENOENT")
           ELSE /\ e2eResult' = <<result>>
                /\ e2eLog' = Append(log, "phase1_matchIntent")
                /\ e2ePc' = "phase1"
    /\ E2EFrame

\* the request of phase 1 settles; on a match the capability file and
\* auth.md are loaded and phase2_constructRequest sends its request
E2EPhase1Settles ==
    /\ e2ePc = "phase1"
    /\ \E rejected \in BOOLEAN, matchedCapability \in Phase1Replies :
           IF rejected
           THEN /\ matchedCapability = <<>>
                /\ E2ECaught(e2eResult[1], e2eLog, "request failed")
           ELSE LET result ==
                        [e2eResult[1] EXCEPT
                            !.phase1_matchedCapability = matchedCapability,
                            !.phase1_correct =
                                matchedCapability =
                                    <<e2eCase[1].expectedCapability>>] IN
                IF NoMatch(matchedCapability)
                THEN E2ECaught(result, e2eLog, "Failed to match capability")
                ELSE LET log == Append(e2eLog, "loadCapability")
                         loaded == loadCapability(e2eFiles,
                                                  matchedCapability[1]) IN
                     IF loaded.threw
                     THEN E2ECaught(result, log, loaded.message)
                     ELSE /\ e2eResult' = <<result>>
                          /\ e2eLog' = log \o <<"loadCommon",
                                                "phase2_constructRequest">>
                          /\ e2ePc' = "phase2"
    /\ E2EFrame

\* the request of phase 2 settles; the parsed request is stored and
\* phase3_executeRequest builds the url and asks for the headers
E2EPhase2Settles ==
    /\ e2ePc = "phase2"
    /\ \E rejected \in BOOLEAN, request \in Phase2Replies :
           IF rejected
           THEN /\ request = "invalid"
                /\ E2ECaught(e2eResult[1], e2eLog, "request failed")
           ELSE IF request = "invalid"
           THEN E2ECaught(e2eResult[1], e2eLog, "Invalid JSON from LLM")
           ELSE LET result ==
                        [e2eResult[1] EXCEPT
                            !.phase2_requestConstructed = request]
                    log == Append(e2eLog, "phase3_executeRequest") IN
                IF request = "null"
                THEN E2ECaught(result, log, "Cannot read properties of null")
                ELSE /\ e2eResult' = <<result>>
                     /\ e2eLog' = log
                     /\ e2ePc' = "headers"
    /\ E2EFrame

\* cfg.getHeaders() settles; with the headers the request is sent by fetch
E2EHeadersSettle ==
    /\ e2ePc = "headers"
    /\ \E rejected \in BOOLEAN :
           IF rejected
           THEN E2ECaught(e2eResult[1], e2eLog, "no credentials")
           ELSE /\ e2eLog' = Append(e2eLog, "fetch")
                /\ e2ePc' = "fetch"
                /\ UNCHANGED e2eResult
    /\ E2EFrame

\* fetch and response.json() settle; the body is stored, validated and the
\* verdict is computed
E2EFetchSettles ==
    /\ e2ePc = "fetch"
    /\ \E rejected \in BOOLEAN, response \in Phase3Replies :
           IF rejected
           THEN /\ response = "null"
                /\ E2ECaught(e2eResult[1], e2eLog, "fetch failed")
           ELSE LET received ==
                        [e2eResult[1] EXCEPT
                            !.phase3_responseReceived = response]
                    log == Append(e2eLog, "validateResponse")
                    validation == validateResponse(response) IN
                IF validation.threw
                THEN E2ECaught(received, log, validation.reason)
                ELSE /\ e2eResult' =
                            <<[received EXCEPT
                                 !.phase4_validationPassed = validation.pass,
                                 !.phase4_validationReason = validation.reason,
                                 !.overallPass =
                                     OverallPass(received.phase1_correct,
                                                 validation.pass)]>>
                     /\ e2eLog' = log
                     /\ e2ePc' = "done"
    /\ E2EFrame

InitE2E ==
    /\ E2EInit /\ ExIdle /\ NormIdle /\ GenIdle /\ TdIdle
    /\ RtIdle /\ StIdle /\ EvIdle
NextE2E ==
    \/ E2EBegin
    \/ E2EPhase1Settles
    \/ E2EPhase2Settles
    \/ E2EHeadersSettle
    \/ E2EFetchSettles
SpecE2E == InitE2E /\ [][NextE2E]_vars

----------------------------------------------------------------------------
(* Properties of runE2ETest *)

\* the positions of e2eLog that hold the step
E2EAt(step) == {k \in 1..Len(e2eLog) : e2eLog[k] = step}

\* C23: overallPass is true only when the matched capability is the expected
\* one, a request was constructed, a response was received, the validation
\* passed and no error is recorded; once a step throws nothing runs after
\* it, overallPass stays false and error holds the message; fetch is never
\* reached when phase 1 matched nothing or the matched capability has no file
C23_OverallPassNeedsEveryPhase ==
    e2eResult # <<>> =>
        LET r == e2eResult[1] IN
        /\ r.overallPass =>
              /\ r.phase1_matchedCapability = <<e2eCase[1].expectedCapability>>
              /\ r.phase2_requestConstructed # "null"
              /\ r.phase3_responseReceived # "null"
              /\ r.phase4_validationPassed
              /\ r.error = <<>>
        /\ \A k \in E2EAt("threw") :
              /\ k = Len(e2eLog)
              /\ e2ePc = "done"
              /\ ~r.overallPass
              /\ r.error # <<>>
        /\ r.error # <<>> => E2EAt("threw") # {}
        /\ E2EAt("fetch") # {} =>
              /\ ~NoMatch(r.phase1_matchedCapability)
              /\ r.phase1_matchedCapability[1] \in e2eFiles

\* phase 1 named a capability that has no file: the run ended there
C23_Witness ==
    /\ e2ePc = "done"
    /\ e2eResult[1].phase1_matchedCapability = <<"projects.get">>
    /\ e2eResult[1].error = <<"Capability file not found">>
    /\ e2eLog = <<"loadSkillIndex", "phase1_matchIntent", "loadCapability",
                  "threw">>
    /\ ~e2eResult[1].overallPass

\* a run in which all four phases succeeded
C23_AllPhasesPass ==
    /\ e2ePc = "done"
    /\ e2eResult[1].overallPass
    /\ E2EAt("fetch") # {}

----------------------------------------------------------------------------
(* The comparison runner: runWithOpenApi, runWithMapi, runWithSkill, main *)

\* the formats every test is run against, in the order of runTest
Formats == <<"openapi", "mapi", "skill">>

\* ALL_TESTS: the test cases main runs, in order
ALL_TESTS ==
    << [id |-> "gcp-001", expectedCapability |-> ListCapability],
       [id |-> "gcp-002", expectedCapability |-> GetCapability] >>

\* callLLM returned: the trimmed text and the usage of the one request that
\* succeeded
LLMResult(content) ==
    [kind |-> "returned", content |-> content, inputTokens |-> 3,
     outputTokens |-> 1, latencyMs |-> 2, err |-> <<>>]

\* callLLM threw what withRetry threw
LLMThrew(err) ==
    [kind |-> "threw", content |-> "", inputTokens |-> 0,
     outputTokens |-> 0, latencyMs |-> 0, err |-> <<err>>]

\* thrown by the code of the runners themselves
ErrNoMatch == Error("Error", 0, "", <<"Failed", "to", "match", "capability">>)
ErrNoFile == Error("Error", 0, "", <<"Capability", "file", "not", "found">>)
ErrSyntax == Error("SyntaxError", 0, "", <<"Unexpected", "token">>)
ErrType == Error("TypeError", 0, "", <<"Cannot", "read", "properties">>)

\* how the two callLLM calls and the API call of one format run turn out:
\* all pass; a wrong operation and an error body; the first call exhausted by
\* rate limits; the API call exhausted by rate limits; a reply that is not JSON
Scenarios(testCase) ==
    { <<LLMResult(testCase.expectedCapability), LLMResult("request"),
        Returned("expected")>>,
      <<LLMResult("projects.get"), LLMResult("request"), Returned("error")>>,
      <<LLMThrew(RateLimitExhaustedError), LLMResult("request"),
        Returned("expected")>>,
      <<LLMResult(testCase.expectedCapability), LLMResult("request"),
        Threw(RateLimitExhaustedError)>>,
      <<LLMResult(testCase.expectedCapability), LLMResult("invalid"),
        Returned("expected")>> }

\* the result object every runner starts from
FormatResult0(format) ==
    [ format |-> format,
      inputTokens |-> 0,
      outputTokens |-> 0,
      latencyMs |-> 0,
      matchedCapability |-> <<>>,
      capabilityCorrect |-> FALSE,
      apiSuccess |-> FALSE,
      apiResponse |-> "null",
      validationReason |-> "",
      rateLimitSkipped |-> <<>>,
      error |-> <<>> ]

\* error instanceof RateLimitExhaustedError
InstanceOfRateLimitExhausted(error) == error.name = "RateLimitExhaustedError"

\* the catch block of a runner and its return
FormatCaught(result, error) ==
    [ result |->
          IF InstanceOfRateLimitExhausted(error)
          THEN [result EXCEPT
                   !.rateLimitSkipped = <<TRUE>>,
                   !.validationReason = "Skipped: rate limit exhausted"]
          ELSE [result EXCEPT
                   !.error = <<error.message>>,
                   !.validationReason = "Error"],
      ended |-> <<error>> ]

\* result.inputTokens += ...; result.outputTokens += ...; result.latencyMs += ...
AddUsage(result, llm) ==
    [result EXCEPT
        !.inputTokens = @ + llm.inputTokens,
        !.outputTokens = @ + llm.outputTokens,
        !.latencyMs = @ + llm.latencyMs]

\* the body of runWithOpenApi, runWithMapi and runWithSkill; only
\* runWithSkill stops at an empty match and loads the capability file
runFormat(format, testCase, match, construct, api) ==
    LET r0 == FormatResult0(format) IN
    IF match.kind = "threw" THEN FormatCaught(r0, match.err[1]) ELSE
    LET r1 == [AddUsage(r0, match) EXCEPT
                  !.matchedCapability = <<match.content>>,
                  !.capabilityCorrect =
                      match.content = testCase.expectedCapability] IN
    IF format = "skill" /\ NoMatch(r1.matchedCapability)
    THEN FormatCaught(r1, ErrNoMatch) ELSE
    IF /\ format = "skill"
       /\ loadCapability({ListCapability, GetCapability},
                         match.content).threw
    THEN FormatCaught(r1, ErrNoFile) ELSE
    IF construct.kind = "threw" THEN FormatCaught(r1, construct.err[1]) ELSE
    LET r2 == AddUsage(r1, construct) IN
    IF construct.content = "invalid" THEN FormatCaught(r2, ErrSyntax) ELSE
    IF api.kind = "threw" THEN FormatCaught(r2, api.err[1]) ELSE
    LET r3 == [r2 EXCEPT !.apiResponse = api.value]
        validation == validateResponse(api.value) IN
    IF validation.threw THEN FormatCaught(r3, ErrType) ELSE
    [ result |-> [r3 EXCEPT !.apiSuccess = validation.pass,
                            !.validationReason = validation.reason],
      ended |-> <<>> ]

\* the statistics of one format before the first result is added
StatsZero ==
    [ totalInputTokens |-> 0, totalOutputTokens |-> 0, totalLatencyMs |-> 0,
      correctMatches |-> 0, apiSuccesses |-> 0, total |-> 0, skipped |-> 0 ]

SkippedNever(r) == FALSE

\* if (r.rateLimitSkipped)
Skipped(r) == r.rateLimitSkipped = <<TRUE>>

\* the body of the inner loop of main for the result r
AddResult(stat, r) ==
    IF Skipped(r)
    THEN [stat EXCEPT !.skipped = @ + 1]
    ELSE [stat EXCEPT
             !.totalInputTokens = @ + r.inputTokens,
             !.totalOutputTokens = @ + r.outputTokens,
             !.totalLatencyMs = @ + r.latencyMs,
             !.correctMatches = @ + (IF r.capabilityCorrect THEN 1 ELSE 0),
             !.apiSuccesses = @ + (IF r.apiSuccess THEN 1 ELSE 0),
             !.total = @ + 1]

\* the two loops of main over the results from position k on
RECURSIVE Aggregate(_, _, _)
Aggregate(results, k, stats) ==
    IF k > Len(results) THEN stats
    ELSE LET r == results[k] IN
         Aggregate(results, k + 1,
                   [stats EXCEPT ![r.format] = AddResult(@, r)])

StInit ==
    /\ stResults = <<>>
    /\ stEnded = <<>>
    /\ stStats = <<>>
    /\ stPc = "running"

StFrame ==
    /\ UNCHANGED exVars
    /\ UNCHANGED normVars
    /\ UNCHANGED genVars
    /\ UNCHANGED tdVars
    /\ UNCHANGED rtVars
    /\ UNCHANGED e2eVars
    /\ UNCHANGED evVars

\* runTest runs the next format of the current test case to its return
RunFormat ==
    /\ stPc = "running"
    /\ Len(stResults) < Len(Formats) * Len(ALL_TESTS)
    /\ LET testCase == ALL_TESTS[(Len(stResults) \div Len(Formats)) + 1]
           format == Formats[(Len(stResults) % Len(Formats)) + 1] IN
       \E s \in Scenarios(testCase) :
           LET run == runFormat(format, testCase, s[1], s[2], s[3]) IN
           /\ stResults' = Append(stResults, run.result)
           /\ stEnded' = Append(stEnded, run.ended)
    /\ UNCHANGED <<stStats, stPc>>
    /\ StFrame

\* every test has run: main aggregates the statistics of the three formats
AggregateStats ==
    /\ stPc = "running"
    /\ Len(stResults) = Len(Formats) * Len(ALL_TESTS)
    /\ stStats' = <<Aggregate(stResults, 1,
                              [f \in {Formats[i] : i \in 1..Len(Formats)}
                                  |-> StatsZero])>>
    /\ stPc' = "aggregated"
    /\ UNCHANGED <<stResults, stEnded>>
    /\ StFrame

InitStats ==
    /\ StInit /\ ExIdle /\ NormIdle /\ GenIdle /\ TdIdle
    /\ RtIdle /\ E2EIdle /\ EvIdle
NextStats == RunFormat \/ AggregateStats
SpecStats == InitStats /\ [][NextStats]_vars

----------------------------------------------------------------------------
(* Properties of the statistics *)

\* the runs of the format, and those of them that ended with
\* RateLimitExhaustedError
RunsOf(format) == {k \in 1..Len(stResults) : stResults[k].format = format}
ExhaustedRuns(format) ==
    {k \in RunsOf(format) : stEnded[k] = <<RateLimitExhaustedError>>}

\* the sum of a numeric field over the runs in S
RECURSIVE FieldSum(_, _)
FieldSum(S, field) ==
    IF S = {} THEN 0
    ELSE LET k == CHOOSE x \in S : TRUE IN
         stResults[k][field] + FieldSum(S \ {k}, field)

\* C26: a run that ended with RateLimitExhaustedError is marked
\* rateLimitSkipped and has no error; in the statistics of every format
\* total + skipped is the number of test cases, skipped counts exactly the
\* exhausted runs, the token, latency, correctMatches and apiSuccesses
\* counters are those of the other runs alone, and apiSuccesses <= total
C26_SkippedRunsNotCounted ==
    /\ \A k \in 1..Len(stResults) :
          stEnded[k] = <<RateLimitExhaustedError>> =>
              /\ stResults[k].rateLimitSkipped = <<TRUE>>
              /\ stResults[k].error = <<>>
    /\ stStats # <<>> =>
          \A i \in 1..Len(Formats) :
              LET st == stStats[1][Formats[i]]
                  counted == RunsOf(Formats[i]) \ ExhaustedRuns(Formats[i]) IN
              /\ st.total + st.skipped = Len(ALL_TESTS)
              /\ st.skipped = Cardinality(ExhaustedRuns(Formats[i]))
              /\ st.totalInputTokens = FieldSum(counted, "inputTokens")
              /\ st.totalOutputTokens = FieldSum(counted, "outputTokens")
              /\ st.totalLatencyMs = FieldSum(counted, "latencyMs")
              /\ st.correctMatches =
                     Cardinality({k \in counted : stResults[k].capabilityCorrect})
              /\ st.apiSuccesses =
                     Cardinality({k \in counted : stResults[k].apiSuccess})
              /\ st.apiSuccesses <= st.total

\* the OpenAPI run of the first test was exhausted at its API call, after
\* both LLM calls had used tokens, and the second one passed
C26_Witness ==
    /\ stPc = "aggregated"
    /\ stEnded[1] = <<RateLimitExhaustedError>>
    /\ stResults[1].inputTokens > 0
    /\ stResults[4].apiSuccess
    /\ stStats[1]["openapi"].skipped = 1
    /\ stStats[1]["openapi"].total = 1
    /\ stStats[1]["openapi"].totalInputTokens = stResults[4].inputTokens

----------------------------------------------------------------------------
(* The evaluator: extractCapability, evaluate, summarize *)

\* the longest list of results handed to summarize
MaxResults == 2

\* trimmed.length < 100
CapabilityIdLimit == 100

Quote == "\""
Fence == <<Backtick, Backtick, Backtick>>
CapabilityWord == <<"c", "a", "p", "a", "b", "i", "l", "i", "t", "y">>
JsonWord == <<"j", "s", "o", "n">>
NullWord == <<"n", "u", "l", "l">>

\* the character classes of the regular expressions: \s, [0-9], [a-zA-Z_],
\* [a-zA-Z0-9_.] and ["\s:]
IsSpace(c) == c \in {" ", "\n"}
IsDigit(c) == c \in {"0", "1", "2", "3", "4", "5", "6", "7", "8", "9"}
IsIdStart(c) == IsLower(c) \/ IsUpper(c) \/ c = "_"
IsIdChar(c) == IsIdStart(c) \/ IsDigit(c) \/ c = "."
IsSeparator(c) == c = Quote \/ IsSpace(c) \/ c = ":"

\* the least member of a non-empty set of positions
Least(S) == CHOOSE j \in S : \A k \in S : j <= k

\* the first position from i on that is past the end of str or holds a
\* character outside the class
SkipSpace(str, i) ==
    Least({j \in i..(Len(str) + 1) : j = Len(str) + 1 \/ ~IsSpace(str[j])})
SkipSeparators(str, i) ==
    Least({j \in i..(Len(str) + 1) : j = Len(str) + 1 \/ ~IsSeparator(str[j])})
SkipIdChars(str, i) ==
    Least({j \in i..(Len(str) + 1) : j = Len(str) + 1 \/ ~IsIdChar(str[j])})
SkipDigits(str, i) ==
    Least({j \in i..(Len(str) + 1) : j = Len(str) + 1 \/ ~IsDigit(str[j])})

\* the word stands in str at position i
WordAt(str, i, word) ==
    /\ i + Len(word) - 1 <= Len(str)
    /\ SubSeq(str, i, i + Len(word) - 1) = word

\* String.prototype.trim
Trim(str) ==
    LET kept == {j \in 1..Len(str) : ~IsSpace(str[j])} IN
    IF kept = {} THEN <<>>
    ELSE SubSeq(str, Least(kept), CHOOSE j \in kept : \A k \in kept : k <= j)

\* what JSON.parse made of a text: ok is false when it throws; t is the type
\* of the value, s the characters of a string; for an object hasCap tells
\* whether it has the key capability and capT, capS are the type and the
\* characters of that member
Parsed(ok, next, t, str, hasCap, capT, capS) ==
    [ok |-> ok, next |-> next, t |-> t, s |-> str,
     hasCap |-> hasCap, capT |-> capT, capS |-> capS]

ParseFailed == Parsed(FALSE, 0, "", <<>>, FALSE, "", <<>>)

\* a JSON string that opens at position i: it ends at the next quote and
\* holds no line break
ParseString(str, i) ==
    LET closing == {j \in (i + 1)..Len(str) : str[j] = Quote} IN
    IF closing = {} THEN ParseFailed
    ELSE LET j == Least(closing)
             content == SubSeq(str, i + 1, j - 1) IN
         IF \E k \in 1..Len(content) : content[k] = "\n" THEN ParseFailed
         ELSE Parsed(TRUE, j + 1, "str", content, FALSE, "", <<>>)

\* a JSON number that opens at position i: digits without a leading zero
ParseNumber(str, i) ==
    LET j == SkipDigits(str, i) IN
    IF str[i] = "0" /\ j > i + 1 THEN ParseFailed
    ELSE Parsed(TRUE, j, "num", SubSeq(str, i, j - 1), FALSE, "", <<>>)

RECURSIVE ParseValue(_, _)
RECURSIVE ParseMembers(_, _, _, _, _, _)

\* a JSON value from position from on: an object, a string, a number or null
ParseValue(str, from) ==
    LET i == SkipSpace(str, from) IN
    IF i > Len(str) THEN ParseFailed
    ELSE IF str[i] = "{" THEN ParseMembers(str, i + 1, TRUE, FALSE, "", <<>>)
    ELSE IF str[i] = Quote THEN ParseString(str, i)
    ELSE IF IsDigit(str[i]) THEN ParseNumber(str, i)
    ELSE IF WordAt(str, i, NullWord)
    THEN Parsed(TRUE, i + Len(NullWord), "null", <<>>, FALSE, "", <<>>)
    ELSE ParseFailed

\* the members of an object from position from on up to its closing brace;
\* a later member with the key capability replaces an earlier one
ParseMembers(str, from, first, hasCap, capT, capS) ==
    LET i == SkipSpace(str, from) IN
    IF i > Len(str) THEN ParseFailed
    ELSE IF first /\ str[i] = "}"
    THEN Parsed(TRUE, i + 1, "obj", <<>>, hasCap, capT, capS)
    ELSE IF str[i] # Quote THEN ParseFailed
    ELSE
    LET key == ParseString(str, i) IN
    IF ~key.ok THEN ParseFailed ELSE
    LET colon == SkipSpace(str, key.next) IN
    IF colon > Len(str) \/ str[colon] # ":" THEN ParseFailed ELSE
    LET value == ParseValue(str, colon + 1) IN
    IF ~value.ok THEN ParseFailed ELSE
    LET isCap == key.s = CapabilityWord
        has == hasCap \/ isCap
        ct == IF isCap THEN value.t ELSE capT
        cs == IF isCap THEN value.s ELSE capS
        after == SkipSpace(str, value.next) IN
    IF after > Len(str) THEN ParseFailed
    ELSE IF str[after] = "}" THEN Parsed(TRUE, after + 1, "obj", <<>>, has, ct, cs)
    ELSE IF str[after] = "," THEN ParseMembers(str, after + 1, FALSE, has, ct, cs)
    ELSE ParseFailed

\* JSON.parse: one value, with nothing but white space around it
JsonParse(str) ==
    LET value == ParseValue(str, 1) IN
    IF value.ok /\ SkipSpace(str, value.next) = Len(str) + 1
    THEN value
    ELSE ParseFailed

\* trimmed.match(/```(?:json)?\s*([\s\S]*?)```/): <<>> when there is no
\* match, else the captured group
CodeBlock(trimmed) ==
    LET opens == {i \in 1..Len(trimmed) : WordAt(trimmed, i, Fence)} IN
    IF opens = {} THEN <<>>
    ELSE LET open == Least(opens) + Len(Fence)
             named == IF WordAt(trimmed, open, JsonWord)
                      THEN open + Len(JsonWord) ELSE open
             body == SkipSpace(trimmed, named)
             closes == {k \in body..Len(trimmed) : WordAt(trimmed, k, Fence)} IN
         IF closes = {} THEN <<>>
         ELSE <<SubSeq(trimmed, body, Least(closes) - 1)>>

\* trimmed.match(/capability["\s:]+([a-zA-Z_][a-zA-Z0-9_.]*)/i): <<>> when
\* there is no match, else the captured group of the leftmost match
CapabilityPattern(trimmed) ==
    LET idAt(i) == SkipSeparators(trimmed, i + Len(CapabilityWord))
        starts ==
            {i \in 1..Len(trimmed) :
                /\ i + Len(CapabilityWord) - 1 <= Len(trimmed)
                /\ ToLowerCase(SubSeq(trimmed, i, i + Len(CapabilityWord) - 1))
                       = CapabilityWord
                /\ idAt(i) > i + Len(CapabilityWord)
                /\ idAt(i) <= Len(trimmed)
                /\ IsIdStart(trimmed[idAt(i)])} IN
    IF starts = {} THEN <<>>
    ELSE LET j == idAt(Least(starts)) IN
         <<SubSeq(trimmed, j, SkipIdChars(trimmed, j) - 1)>>

\* /^[a-zA-Z_][a-zA-Z0-9_.]*$/.test(trimmed) && trimmed.length < 100
LooksLikeId(trimmed) ==
    /\ Len(trimmed) > 0
    /\ IsIdStart(trimmed[1])
    /\ \A k \in 1..Len(trimmed) : IsIdChar(trimmed[k])
    /\ Len(trimmed) < CapabilityIdLimit

Extracted(capability) == [capability |-> <<capability>>, error |-> <<>>]

NotExtractedSilently(trimmed) == [capability |-> <<>>, error |-> <<>>]

\* the last return of extractCapability: no capability and a message
NotExtracted(trimmed) ==
    [capability |-> <<>>,
     error |-> <<"Could not extract capability from output">>]

\* extractCapability: capability and error are <<>> for null
extractCapability(rawOutput) ==
    LET trimmed == Trim(rawOutput)
        jsonMatch == CodeBlock(trimmed)
        jsonStr == IF jsonMatch # <<>> THEN Trim(jsonMatch[1]) ELSE trimmed
        parsed == JsonParse(jsonStr)
        capMatch == CapabilityPattern(trimmed) IN
    IF /\ parsed.ok
       /\ parsed.t = "obj"
       /\ parsed.hasCap
       /\ parsed.capT = "str"
       /\ Len(parsed.capS) > 0
    THEN Extracted(parsed.capS)
    ELSE IF capMatch # <<>> THEN Extracted(capMatch[1])
    ELSE IF LooksLikeId(trimmed) THEN Extracted(trimmed)
    ELSE NotExtracted(trimmed)

\* evaluate
evaluate(testCase, llmResponse) ==
    LET extracted == extractCapability(llmResponse.content)
        normalizedExpected == Trim(ToLowerCase(testCase.expected_capability))
        normalizedSelected ==
            IF extracted.capability = <<>> THEN <<>>
            ELSE <<Trim(ToLowerCase(extracted.capability[1]))>> IN
    [ test_id |-> testCase.id,
      expected_capability |-> testCase.expected_capability,
      selected_capability |-> extracted.capability,
      correct |-> /\ normalizedSelected # <<>>
                  /\ normalizedSelected[1] = normalizedExpected,
      parse_error |-> extracted.error,
      raw_output |-> llmResponse.content,
      latency_ms |-> llmResponse.latency_ms,
      input_tokens |-> llmResponse.input_tokens,
      output_tokens |-> llmResponse.output_tokens ]

\* a quotient the code computes in floating point, kept as a fraction
Ratio(num, den) == [num |-> num, den |-> den]

\* results.filter(r => r.correct)
IsCorrect(r) == r.correct

IsIncorrectLoose(r) == ~r.correct

\* results.filter(r => !r.correct && r.parse_error === null)
IsIncorrect(r) == ~r.correct /\ r.parse_error = <<>>

\* results.filter(r => r.parse_error !== null)
IsParseError(r) == r.parse_error # <<>>

\* results.reduce((sum, r) => sum + r[field], 0), from position k on
RECURSIVE Reduce(_, _, _)
Reduce(results, field, k) ==
    IF k > Len(results) THEN 0
    ELSE results[k][field] + Reduce(results, field, k + 1)

\* summarize
summarize(results) ==
    LET total == Len(results)
        correct == Cardinality({k \in 1..total : IsCorrect(results[k])})
        incorrect == Cardinality({k \in 1..total : IsIncorrect(results[k])})
        parse_errors == Cardinality({k \in 1..total : IsParseError(results[k])})
        totalLatency == Reduce(results, "latency_ms", 1) IN
    [ total |-> total,
      correct |-> correct,
      incorrect |-> incorrect,
      parse_errors |-> parse_errors,
      accuracy |-> IF total > 0 THEN Ratio(correct, total) ELSE Ratio(0, 1),
      avg_latency_ms |->
          IF total > 0 THEN Ratio(totalLatency, total) ELSE Ratio(0, 1),
      total_input_tokens |-> Reduce(results, "input_tokens", 1),
      total_output_tokens |-> Reduce(results, "output_tokens", 1) ]

\* the capability id a.b and ways of writing it
IdAB == <<"a", ".", "b">>
Quoted(str) == <<Quote>> \o str \o <<Quote>>
JsonObject(key, value) == <<"{">> \o Quoted(key) \o <<":", " ">> \o value \o <<"}">>

\* the test cases: the expected capability is a.b, or B with a blank before it
EvalCases ==
    { [id |-> "t1", expected_capability |-> IdAB],
      [id |-> "t2", expected_capability |-> <<" ", "B">>] }

\* the texts the LLM may answer with
LLMContents ==
    { IdAB,
      <<" ", "A", ".", "b", "\n">>,
      <<"b">>,
      JsonObject(CapabilityWord, Quoted(IdAB)),
      Fence \o JsonWord \o <<"\n">> \o JsonObject(CapabilityWord, Quoted(<<"B">>))
          \o <<"\n">> \o Fence,
      JsonObject(CapabilityWord, Quoted(<<" ", "a", ".", "b", " ">>)),
      JsonObject(CapabilityWord, <<"1">>),
      JsonObject(CapabilityWord, Quoted(<<>>)),
      JsonObject(<<"C", "a", "p", "a", "b", "i", "l", "i", "t", "y">>, Quoted(IdAB)),
      JsonObject(<<"x">>, Quoted(IdAB)),
      CapabilityWord \o <<":", " ">> \o IdAB \o <<"!">>,
      <<"u", "s", "e", " ">> \o IdAB,
      <<"{">> \o CapabilityWord \o <<":", " ">> \o IdAB \o <<"}">>,
      Quoted(IdAB),
      NullWord,
      <<"1", "a">>,
      <<>> }

\* the LLMResponse with the given text
LLMResponse(content) ==
    [content |-> content, latency_ms |-> 2, input_tokens |-> 3,
     output_tokens |-> 1]

EvInit ==
    /\ evInputs = <<>>
    /\ evResults = <<>>
    /\ evSummary = <<>>
    /\ evPc = "running"

EvFrame ==
    /\ UNCHANGED exVars
    /\ UNCHANGED normVars
    /\ UNCHANGED genVars
    /\ UNCHANGED tdVars
    /\ UNCHANGED rtVars
    /\ UNCHANGED e2eVars
    /\ UNCHANGED stVars

\* the runner evaluates the response to one more test case
Evaluate ==
    /\ evPc = "running"
    /\ Len(evResults) < MaxResults
    /\ \E testCase \in EvalCases, content \in LLMContents :
           LET llmResponse == LLMResponse(content) IN
           /\ evInputs' = Append(evInputs, [testCase |-> testCase,
                                            llmResponse |-> llmResponse])
           /\ evResults' = Append(evResults, evaluate(testCase, llmResponse))
    /\ UNCHANGED <<evSummary, evPc>>
    /\ EvFrame

\* the runner summarizes the results it has
Summarize ==
    /\ evPc = "running"
    /\ evSummary' = <<summarize(evResults)>>
    /\ evPc' = "summarized"
    /\ UNCHANGED <<evInputs, evResults>>
    /\ EvFrame

InitEval ==
    /\ EvInit /\ ExIdle /\ NormIdle /\ GenIdle /\ TdIdle
    /\ RtIdle /\ E2EIdle /\ StIdle
NextEval == Evaluate \/ Summarize
SpecEval == InitEval /\ [][NextEval]_vars

----------------------------------------------------------------------------
(* Properties of the evaluator *)

\* part occurs in text as a run of consecutive characters
OccursIn(part, text) ==
    \E i \in 1..(Len(text) + 1) :
        /\ i + Len(part) - 1 <= Len(text)
        /\ SubSeq(text, i, i + Len(part) - 1) = part

\* the number of the three outcomes correct, incorrect, parse error that
\* the result falls under
OutcomesOf(r) ==
    Cardinality({o \in {"correct", "incorrect", "parse_error"} :
        \/ o = "correct" /\ r.correct
        \/ o = "incorrect" /\ ~r.correct /\ r.parse_error = <<>>
        \/ o = "parse_error" /\ r.parse_error # <<>>})

C27_SummaryPartitions ==
    evSummary # <<>> =>
        LET sum == evSummary[1]
            all == 1..Len(evResults)
            right == {k \in all : evResults[k].correct}
            unparsed == {k \in all : evResults[k].parse_error # <<>>} IN
        /\ sum.total = Len(evResults)
        /\ sum.correct + sum.incorrect + sum.parse_errors = sum.total
        /\ sum.correct = Cardinality(right)
        /\ sum.parse_errors = Cardinality(unparsed)
        /\ sum.incorrect = Cardinality(all \ (right \cup unparsed))
        /\ right \cap unparsed = {}
        /\ sum.total = 0 => sum.accuracy = Ratio(0, 1)

\* a summary of one correct result, and one that could not be parsed
C27_Witness ==
    /\ evPc = "summarized"
    /\ Len(evResults) = 2
    /\ evResults[1].correct
    /\ evResults[2].parse_error # <<>>
    /\ evSummary[1].correct = 1
    /\ evSummary[1].incorrect = 0
    /\ evSummary[1].parse_errors = 1
    /\ evSummary[1].accuracy = Ratio(1, 2)

\* the summary of no results
C27_EmptySummary ==
    /\ evPc = "summarized"
    /\ evResults = <<>>
    /\ evSummary[1].accuracy = Ratio(0, 1)

====
